---------------------------- MODULE Spec2Model ----------------------------
(***************************************************************************)
(* xtchd: hash-chained ("etched") rows in Postgres.                        *)
(*                                                                         *)
(* The model follows src/src/xtchr.rs (the Xtchr write and read            *)
(* operations), src/src/integrity.rs (HashChainLink, XtchdContent,         *)
(* nonefmt, time_fmt, sha256), src/src/xrows.rs (the content types and     *)
(* their state_string) and src/src/writer.rs (Pool::get of the Writer).    *)
(*                                                                         *)
(* Strings are TLC strings, built with \o and ToString exactly where the   *)
(* code uses format!.  SHA-256 is idealised as an injective function of    *)
(* its input string.  Option<T> is a sequence: <<>> is None, <<v>> is      *)
(* Some(v).  Result<T, E> is a record with the field ok.                   *)
(***************************************************************************)
EXTENDS Integers, Sequences, FiniteSets, TLC

VARIABLES
    db,             \* tracked tables: table name -> set of rows
    image_files,    \* the image_files table: set of file names
    images_mut,     \* the images_mut table: set of rows, unique on id
    hash_integrity, \* the hash_integrity table read by writer.rs
    pc,             \* per task: "idle", "image_files" or "insert"
    op,             \* per task: the operation it runs or ran last
    args,           \* per task: the arguments of that operation
    last,           \* per task: the LastRow read by get_last_row
    ret,            \* per task: how the last operation ended
    built,          \* per task: the content and hash chain link it built last
    stmts,          \* per task: statements issued by the current operation
    calls,          \* number of operations started so far
    limit,          \* number of operations the callers start in this behaviour
    tampered        \* rows whose stored hash was changed behind the program

vars == <<db, image_files, images_mut, hash_integrity,
          pc, op, args, last, ret, built, stmts, calls, limit, tampered>>

-----------------------------------------------------------------------------
(* Bounds of the model *)

\* operations started in one behaviour
MaxCalls == 2

\* two concurrent tasks, each holding its own Xtchr
Tasks == {"t1", "t2"}

-----------------------------------------------------------------------------
(* Option and Result *)

None == <<>>

Some(v) == <<v>>

Ok(v) == [ok |-> TRUE, val |-> v]

Err(e) == [ok |-> FALSE, err |-> e]

\* how an operation ended: a returned Result, or a panic out of .unwrap()
Returned(r) == [kind |-> "returned", res |-> r]

Panicked(why) == [kind |-> "panic", why |-> why]

NotRun == [kind |-> "none"]

-----------------------------------------------------------------------------
(* integrity.rs *)

\* Display of an i32
FmtInt(i) == ToString(i)

nonefmt_mutant_debug(opt) == IF opt = None THEN "None" ELSE "Some(" \o opt[1] \o ")"

\* nonefmt on an Option<String>
nonefmt(opt) == IF opt = None THEN "" ELSE opt[1]

\* nonefmt on an Option<i32> or Option<i16>
nonefmt_int(opt) == IF opt = None THEN "" ELSE FmtInt(opt[1])

\* two digits, zero padded (%m %d %H %M %S)
Pad2(n) == IF n < 10 THEN "0" \o ToString(n) ELSE ToString(n)

time_fmt_mutant_subsec(ts) ==
    ToString(ts.year) \o "." \o Pad2(ts.month) \o "." \o Pad2(ts.day) \o " "
        \o Pad2(ts.hour) \o ":" \o Pad2(ts.minute) \o ":" \o Pad2(ts.second)
        \o "." \o ToString(ts.nano)

\* "%Y.%m.%d %H:%M:%S": whole seconds, the sub-second part is dropped
time_fmt(ts) ==
    ToString(ts.year) \o "." \o Pad2(ts.month) \o "." \o Pad2(ts.day) \o " "
        \o Pad2(ts.hour) \o ":" \o Pad2(ts.minute) \o ":" \o Pad2(ts.second)

\* SHA-256 in lowercase hex, idealised: injective in its input
sha256(input) == "sha256(" \o input \o ")"

-----------------------------------------------------------------------------
(* xrows.rs: the content types; dtype is the tag Xtchable::dtype() gives *)

Author(auth_id, name) ==
    [dtype |-> "Author", auth_id |-> auth_id, name |-> name]

Article(art_id, auth_id, title, image_file) ==
    [dtype |-> "Article", auth_id |-> auth_id, art_id |-> art_id, title |-> title,
     image_file |-> image_file]

ArticlePara(apara_id, art_id, md) ==
    [dtype |-> "ArticlePara", art_id |-> art_id, apara_id |-> apara_id, md |-> md]

YoutubeChannel(chan_id, url, name) ==
    [dtype |-> "YoutubeChannel", name |-> name, chan_id |-> chan_id, url |-> url]

YoutubeVideo(vid_id, vid_pk, chan_id, title, date_uploaded) ==
    [dtype |-> "YoutubeVideo", title |-> title, chan_id |-> chan_id,
     vid_id |-> vid_id, vid_pk |-> vid_pk, date_uploaded |-> date_uploaded]

ImagePair(src_full, src_thmb, alt, url, archive) ==
    [url |-> url, src_full |-> src_full, src_thmb |-> src_thmb, alt |-> alt,
     archive |-> archive]

ImmutableImage(img_id, pair) ==
    [dtype |-> "Image", img_id |-> img_id, pair |-> pair]

RefFrom(art_id, apara_id, comment) ==
    [art_id |-> art_id, apara_id |-> apara_id, comment |-> comment]

\* ArticleRefArticle::from_req
ArticleRefArticle_from_req(req, aref_id) ==
    [dtype |-> "ArticleRefArticle", aref_id |-> aref_id, rf |-> req.rf,
     refs_art |-> req.refs_art, refs_para |-> req.refs_para]

\* ArticleRefVideo::from_req
ArticleRefVideo_from_req(req, vref_id) ==
    [dtype |-> "ArticleRefVideo", vid_pk |-> req.vid_pk, rf |-> req.rf,
     vref_id |-> vref_id, sec_req |-> req.sec_req]

\* ArticleRefImage::from_req
ArticleRefImage_from_req(req, iref_id) ==
    [dtype |-> "ArticleRefImage", img_id |-> req.img_id, rf |-> req.rf,
     iref_id |-> iref_id]

\* PageSrc: Author(image_file), Xtchd(art_id) or WpTxYt(img_id)
\* as the pair of the variant and its value
PageSrc(variant, val) == <<variant, val>>

\* PageSrc::src_columns: (img_id, image_file, refs_art_id)
PageSrc_src_columns(source) ==
    CASE source[1] = "Author" -> <<None, Some(source[2]), None>>
      [] source[1] = "Xtchd" -> <<None, None, Some(source[2])>>
      [] source[1] = "WpTxYt" -> <<Some(source[2]), None, None>>

ArticlePage(art_id, apage_id, paragraphs, source) ==
    [dtype |-> "ArticlePage", art_id |-> art_id, apage_id |-> apage_id,
     paragraphs |-> paragraphs, source |-> source]

\* [String]::join(sep)
RECURSIVE Join(_, _)
Join(strs, sep) ==
    IF strs = <<>> THEN ""
    ELSE IF Len(strs) = 1 THEN strs[1]
    ELSE strs[1] \o sep \o Join(Tail(strs), sep)

(* state_string of each content type: the format! of the source *)

ArticlePage_state_string(c) ==
    LET cols == PageSrc_src_columns(c.source)
    IN  "art_id=" \o FmtInt(c.art_id) \o " apage_id=" \o FmtInt(c.apage_id)
            \o " paragraphs=" \o Join(c.paragraphs, " | ")
            \o " img_id=" \o nonefmt_int(cols[1])
            \o " image_file=" \o nonefmt(cols[2])
            \o " refs_art_id=" \o nonefmt_int(cols[3])

Author_state_string(c) ==
    "auth_id=" \o FmtInt(c.auth_id) \o " name=" \o c.name

Article_state_string(c) ==
    "art_id=" \o FmtInt(c.art_id) \o " auth_id=" \o FmtInt(c.auth_id)
        \o " title=" \o c.title

ArticlePara_state_string(c) ==
    "apara_id=" \o FmtInt(c.apara_id) \o " art_id=" \o FmtInt(c.art_id)
        \o " md=" \o c.md

YoutubeChannel_state_string(c) ==
    "chan_id=" \o FmtInt(c.chan_id) \o " name=" \o c.name \o " url=" \o c.url

YoutubeVideo_state_string(c) ==
    "vid_id=" \o FmtInt(c.vid_id) \o " vid_pk=" \o c.vid_pk
        \o " chan_id=" \o FmtInt(c.chan_id) \o " title=" \o c.title

ImmutableImage_state_string(c) ==
    "img_id=" \o FmtInt(c.img_id) \o " src_full=" \o c.pair.src_full
        \o " src_thmb=" \o c.pair.src_thmb \o " alt=" \o c.pair.alt
        \o " url=" \o nonefmt(c.pair.url) \o " archive=" \o nonefmt(c.pair.archive)

ArticleRefArticle_state_string(c) ==
    "aref_id=" \o FmtInt(c.aref_id) \o " from_art=" \o FmtInt(c.rf.art_id)
        \o " from_para=" \o nonefmt_int(c.rf.apara_id)
        \o " refs_art=" \o FmtInt(c.refs_art)
        \o " refs_para=" \o nonefmt_int(c.refs_para)
        \o " comment=" \o c.rf.comment

ArticleRefVideo_state_string(c) ==
    "vref_id=" \o FmtInt(c.vref_id) \o " art_id=" \o FmtInt(c.rf.art_id)
        \o " apara_id=" \o nonefmt_int(c.rf.apara_id)
        \o " vid_pk=" \o c.vid_pk
        \o " sec_req=" \o nonefmt_int(c.sec_req)
        \o " comment=" \o c.rf.comment

ArticleRefImage_state_string(c) ==
    "iref_id=" \o FmtInt(c.iref_id) \o " art_id=" \o FmtInt(c.rf.art_id)
        \o " apara_id=" \o nonefmt_int(c.rf.apara_id)
        \o " img_id=" \o FmtInt(c.img_id)
        \o " comment=" \o c.rf.comment

\* Xtchable::state_string, dispatched on the content type
state_string(c) ==
    CASE c.dtype = "Author" -> Author_state_string(c)
      [] c.dtype = "Article" -> Article_state_string(c)
      [] c.dtype = "ArticlePara" -> ArticlePara_state_string(c)
      [] c.dtype = "YoutubeChannel" -> YoutubeChannel_state_string(c)
      [] c.dtype = "YoutubeVideo" -> YoutubeVideo_state_string(c)
      [] c.dtype = "Image" -> ImmutableImage_state_string(c)
      [] c.dtype = "ArticleRefArticle" -> ArticleRefArticle_state_string(c)
      [] c.dtype = "ArticleRefVideo" -> ArticleRefVideo_state_string(c)
      [] c.dtype = "ArticleRefImage" -> ArticleRefImage_state_string(c)
      [] c.dtype = "ArticlePage" -> ArticlePage_state_string(c)

-----------------------------------------------------------------------------
(* integrity.rs: HashChainLink and XtchdContent *)

HashChainLink_from_timestamp_mutant_order(prior_sha256, write_timestamp, content) ==
    [write_timestamp |-> write_timestamp,
     string_to_hash |-> state_string(content)
        \o " prior_sha256=" \o prior_sha256
        \o " write_timestamp=" \o time_fmt(write_timestamp)]

HashChainLink_from_timestamp(prior_sha256, write_timestamp, content) ==
    [write_timestamp |-> write_timestamp,
     string_to_hash |-> state_string(content)
        \o " write_timestamp=" \o time_fmt(write_timestamp)
        \o " prior_sha256=" \o prior_sha256]

\* HashChainLink::new; now is the value Utc::now() returns at the call
HashChainLink_new(prior_sha256, content, now) ==
    HashChainLink_from_timestamp(prior_sha256, now, content)

new_sha256(hcl) == sha256(hcl.string_to_hash)

XtchdSQL(prior_id, prior_sha256, content, write_timestamp, stored_sha256) ==
    [prior_id |-> prior_id, prior_sha256 |-> prior_sha256, content |-> content,
     write_timestamp |-> write_timestamp, new_sha256 |-> stored_sha256]

\* the hash of the rebuilt string put in the place of the stored hash
XtchdContent_new_mutant_recomputed(prior_id, prior_sha256, write_timestamp, content, stored_sha256) ==
    [dtype |-> content.dtype,
     prior_id |-> prior_id,
     prior_sha256 |-> prior_sha256,
     content |-> content,
     hcl |-> HashChainLink_from_timestamp(prior_sha256, write_timestamp, content),
     new_sha256 |-> new_sha256(HashChainLink_from_timestamp(prior_sha256,
                                                            write_timestamp, content)),
     write_timestamp_str |-> time_fmt(write_timestamp)]

XtchdContent_new(prior_id, prior_sha256, write_timestamp, content, stored_sha256) ==
    [dtype |-> content.dtype,
     prior_id |-> prior_id,
     prior_sha256 |-> prior_sha256,
     content |-> content,
     hcl |-> HashChainLink_from_timestamp(prior_sha256, write_timestamp, content),
     new_sha256 |-> stored_sha256,
     write_timestamp_str |-> time_fmt(write_timestamp)]

XtchdContent_from_sql(xsql) ==
    XtchdContent_new(xsql.prior_id, xsql.prior_sha256, xsql.write_timestamp,
                     xsql.content, xsql.new_sha256)

-----------------------------------------------------------------------------
(* Inputs the model draws from *)

\* values Utc::now() may return, with nanoseconds that Postgres does not keep
Instants ==
    { [year |-> 2023, month |-> 9, day |-> 5, hour |-> 7, minute |-> 3,
       second |-> 9, nano |-> 123456789],
      [year |-> 2023, month |-> 9, day |-> 5, hour |-> 7, minute |-> 3,
       second |-> 10, nano |-> 500] }

AuthorNames == {"Xtchd Admins"}

ImageFiles == {None, Some("splash.png")}

ChannelUrls == {"c/Chan"}

\* (vid_pk, date_uploaded) pairs: one vid_pk with two dates, and another vid_pk
VideoInputs ==
    { <<"dQw4w9WgXcQ", "2005-04-23">>, <<"dQw4w9WgXcQ", "2009-10-25">>,
      <<"jNQXAC9IVRw", "2005-04-23">> }

ImageUrls == {None, Some("")}

ParaRefs == {Some(0)}

RefArts == {0}

SecReqs == {None, Some(42)}

AltTexts == {"a"}

AuthorIds == {0}

ArtIds == {0}

\* str::to_lowercase over the urls the model passes
to_lowercase(s) == CASE s = "c/Chan" -> "c/chan" [] OTHER -> s

-----------------------------------------------------------------------------
(* The database: tracked tables, their id columns, statements *)

TrackedTables ==
    {"authors", "articles", "article_para", "youtube_channels", "youtube_videos",
     "images", "article_ref_article", "article_ref_video", "article_ref_image"}

\* the id column of each tracked table, as the head queries name it
IdCol(table) ==
    CASE table = "authors" -> "auth_id"
      [] table = "articles" -> "art_id"
      [] table = "article_para" -> "apara_id"
      [] table = "youtube_channels" -> "chan_id"
      [] table = "youtube_videos" -> "vid_id"
      [] table = "images" -> "img_id"
      [] table = "article_ref_article" -> "aref_id"
      [] table = "article_ref_video" -> "vref_id"
      [] table = "article_ref_image" -> "iref_id"

\* the content a stored row carries, rebuilt from its columns
RowContent(table, r) ==
    CASE table = "authors" -> Author(r.auth_id, r.name)
      [] table = "articles" -> Article(r.art_id, r.auth_id, r.title, r.image_file)
      [] table = "article_para" -> ArticlePara(r.apara_id, r.art_id, r.md)
      [] table = "youtube_channels" -> YoutubeChannel(r.chan_id, r.url, r.name)
      [] table = "youtube_videos" ->
            YoutubeVideo(r.vid_id, r.vid_pk, r.chan_id, r.title, r.date_uploaded)
      [] table = "images" ->
            ImmutableImage(r.img_id,
                ImagePair(r.src_full, r.src_thmb, r.alt, r.url, r.archive))
      [] table = "article_ref_article" ->
            [dtype |-> "ArticleRefArticle", aref_id |-> r.aref_id,
             rf |-> RefFrom(r.from_art, r.from_para, r.comment),
             refs_art |-> r.refs_art, refs_para |-> r.refs_para]
      [] table = "article_ref_video" ->
            [dtype |-> "ArticleRefVideo", vref_id |-> r.vref_id,
             rf |-> RefFrom(r.art_id, r.apara_id, r.comment),
             vid_pk |-> r.vid_pk, sec_req |-> r.sec_req]
      [] table = "article_ref_image" ->
            [dtype |-> "ArticleRefImage", iref_id |-> r.iref_id,
             rf |-> RefFrom(r.art_id, r.apara_id, r.comment),
             img_id |-> r.img_id]

\* a timestamp as Postgres stores it: microseconds, the rest cut off
pg_timestamp(ts) == [ts EXCEPT !.nano = (ts.nano \div 1000) * 1000]

\* the CHECK constraint of a tracked table: the stored hash is the hash of the
\* row's state string, timestamp and predecessor hash
check_constraint(table, r) ==
    r.new_sha256 =
        new_sha256(HashChainLink_from_timestamp(r.prior_sha256, r.write_timestamp,
                                                RowContent(table, r)))

\* INSERT INTO table ... [ON CONFLICT (arbiter) DO NOTHING]: the new table and
\* the Result of execute (the number of rows written, or the error).
\* io is FALSE when the round trip fails.
DbInsert(rows, table, row, io, arbiter) ==
    LET stored == [row EXCEPT !.write_timestamp = pg_timestamp(@)]
        idcol == IdCol(table)
    IN  IF ~io THEN [rows |-> rows, res |-> Err("db error")]
        ELSE IF ~check_constraint(table, stored)
            THEN [rows |-> rows, res |-> Err("check_violation")]
        ELSE IF arbiter # None /\ \E r \in rows : r[arbiter[1]] = stored[arbiter[1]]
            THEN [rows |-> rows, res |-> Ok(0)]
        ELSE IF \E r \in rows : r[idcol] = stored[idcol]
            THEN [rows |-> rows, res |-> Err("unique_violation")]
        ELSE [rows |-> rows \cup {stored}, res |-> Ok(1)]

\* SELECT id, new_sha256 FROM table ORDER BY id DESC LIMIT 1
client_query_last(rows, idcol, io) ==
    IF ~io THEN Err("db error")
    ELSE IF rows = {} THEN Ok(<<>>)
    ELSE LET top == CHOOSE r \in rows : \A s \in rows : s[idcol] <= r[idcol]
         IN  Ok(<< <<top[idcol], top.new_sha256>> >>)

-----------------------------------------------------------------------------
(* xtchr.rs: LastRow, get_last_row *)

Sentinel == "0000000000000000000000000000000000000000000000000000000000000000"

I32Max == 2147483647

\* i + k in i32 arithmetic without overflow checks (k >= 0): past I32Max the
\* sum wraps to i + k - 2^32, computed here without leaving the i32 range
WrapI32(i, k) ==
    IF i > I32Max - k THEN (i - I32Max - 1) + (k - I32Max - 1) ELSE i + k

LastRow(prior_id, prior_sha256) ==
    [prior_id |-> prior_id, prior_sha256 |-> prior_sha256]

next_id_mutant_one(l) == IF l.prior_id = None THEN 1 ELSE WrapI32(l.prior_id[1], 1)

next_id_mutant_same(l) == IF l.prior_id = None THEN 0 ELSE l.prior_id[1]

next_id_mutant_skip(l) == IF l.prior_id = None THEN 0 ELSE WrapI32(l.prior_id[1], 2)

\* LastRow::next_id
next_id(l) == IF l.prior_id = None THEN 0 ELSE WrapI32(l.prior_id[1], 1)

get_last_row_mutant_sentinel(q) ==
    IF ~q.ok THEN Err(q.err)
    ELSE IF Len(q.val) > 0
        THEN Ok(LastRow(Some(q.val[1][1]), Sentinel))
        ELSE Ok(LastRow(None, Sentinel))

get_last_row_mutant_empty_err(q) ==
    IF ~q.ok THEN Err(q.err)
    ELSE IF Len(q.val) > 0
        THEN Ok(LastRow(Some(q.val[1][1]), q.val[1][2]))
        ELSE Err("missing_row")

\* get_last_row on the Result of its query
get_last_row(q) ==
    IF ~q.ok THEN Err(q.err)
    ELSE IF Len(q.val) > 0
        THEN Ok(LastRow(Some(q.val[1][1]), q.val[1][2]))
        ELSE Ok(LastRow(None, Sentinel))

NoLastRow == LastRow(None, "")

-----------------------------------------------------------------------------
(* Steps shared by the write operations of Xtchr *)

Select(table) == [kind |-> "SELECT", table |-> table]

Insert(table) == [kind |-> "INSERT", table |-> table]

NothingBuilt == [made |-> FALSE]

\* the content and link an operation built, and the row it sent in its INSERT
Built(table, content, hclink, row) ==
    [made |-> TRUE, table |-> table, content |-> content, hclink |-> hclink,
     row |-> row]

\* a call of operation o with arguments a by an idle task
Start(w, o, a) ==
    /\ pc[w] = "idle"
    /\ calls < limit
    /\ calls' = calls + 1
    /\ UNCHANGED <<limit, tampered>>
    /\ op' = [op EXCEPT ![w] = o]
    /\ args' = [args EXCEPT ![w] = a]

\* get_last_row(...).await.unwrap() at the head of a write operation: the head
\* is kept and the operation goes on to `next`, or the unwrap panics
ReadHead(w, o, a, table, next) ==
    /\ Start(w, o, a)
    /\ \E io \in BOOLEAN :
        LET r == get_last_row(client_query_last(db[table], IdCol(table), io))
        IN  IF r.ok
            THEN /\ last' = [last EXCEPT ![w] = r.val]
                 /\ pc' = [pc EXCEPT ![w] = next]
                 /\ ret' = [ret EXCEPT ![w] = NotRun]
            ELSE /\ last' = [last EXCEPT ![w] = NoLastRow]
                 /\ pc' = [pc EXCEPT ![w] = "idle"]
                 /\ ret' = [ret EXCEPT ![w] = Panicked(r.err)]
    /\ built' = [built EXCEPT ![w] = NothingBuilt]
    /\ stmts' = [stmts EXCEPT ![w] = <<Select(table)>>]
    /\ UNCHANGED <<db, image_files, images_mut, hash_integrity>>

\* the INSERT with ON CONFLICT (id) DO UPDATE, as add_image_mutable has it
Execute_mutant_upsert(w, table, row, io, arbiter, onerr, content, hclink, okval) ==
    LET stored == [row EXCEPT !.write_timestamp = pg_timestamp(@)]
    IN  /\ db' = [db EXCEPT ![table] =
                IF io THEN {r \in @ : r[IdCol(table)] # row[IdCol(table)]} \cup {stored}
                ELSE @]
        /\ ret' = [ret EXCEPT ![w] =
                IF io THEN Returned(Ok(okval))
                ELSE IF onerr = "unwrap" THEN Panicked("db error")
                ELSE Returned(Err("db error"))]
        /\ built' = [built EXCEPT ![w] = Built(table, content, hclink, row)]
        /\ stmts' = [stmts EXCEPT ![w] = Append(@, Insert(table))]
        /\ pc' = [pc EXCEPT ![w] = "idle"]
        /\ UNCHANGED <<image_files, images_mut, hash_integrity, op, args, last, calls,
                       limit, tampered>>

\* the INSERT issued again after the table rejected it
Execute_mutant_retry(w, table, row, io, arbiter, onerr, content, hclink, okval) ==
    LET x == DbInsert(db[table], table, row, io, arbiter)
        again == ~x.res.ok /\ x.res.err \in {"check_violation", "unique_violation"}
    IN  /\ db' = [db EXCEPT ![table] = x.rows]
        /\ ret' = [ret EXCEPT ![w] =
                IF x.res.ok THEN Returned(Ok(okval))
                ELSE IF again THEN NotRun
                ELSE IF onerr = "unwrap" THEN Panicked(x.res.err)
                ELSE Returned(Err(x.res.err))]
        /\ built' = [built EXCEPT ![w] = Built(table, content, hclink, row)]
        /\ stmts' = [stmts EXCEPT ![w] = Append(@, Insert(table))]
        /\ pc' = [pc EXCEPT ![w] = IF again THEN "insert" ELSE "idle"]
        /\ UNCHANGED <<image_files, images_mut, hash_integrity, op, args, last, calls,
                       limit, tampered>>

\* the row is written and the operation then fails all the same
Execute_mutant_fail_after_write(w, table, row, io, arbiter, onerr, content, hclink, okval) ==
    LET x == DbInsert(db[table], table, row, io, arbiter)
    IN  /\ db' = [db EXCEPT ![table] = x.rows]
        /\ ret' = [ret EXCEPT ![w] = Panicked("db error")]
        /\ built' = [built EXCEPT ![w] = Built(table, content, hclink, row)]
        /\ stmts' = [stmts EXCEPT ![w] = Append(@, Insert(table))]
        /\ pc' = [pc EXCEPT ![w] = "idle"]
        /\ UNCHANGED <<image_files, images_mut, hash_integrity, op, args, last, calls,
                       limit, tampered>>

\* self.c.execute("INSERT INTO table ...") and the return of the operation:
\* onerr is "unwrap" (.await.unwrap()) or "try" (.await?)
Execute(w, table, row, io, arbiter, onerr, content, hclink, okval) ==
    LET x == DbInsert(db[table], table, row, io, arbiter)
    IN  /\ db' = [db EXCEPT ![table] = x.rows]
        /\ ret' = [ret EXCEPT ![w] =
                IF x.res.ok THEN Returned(Ok(okval))
                ELSE IF onerr = "unwrap" THEN Panicked(x.res.err)
                ELSE Returned(Err(x.res.err))]
        /\ built' = [built EXCEPT ![w] = Built(table, content, hclink, row)]
        /\ stmts' = [stmts EXCEPT ![w] = Append(@, Insert(table))]
        /\ pc' = [pc EXCEPT ![w] = "idle"]
        /\ UNCHANGED <<image_files, images_mut, hash_integrity, op, args, last, calls,
                       limit, tampered>>

AtInsert(w, o) == pc[w] = "insert" /\ op[w] = o

-----------------------------------------------------------------------------
(* xtchr.rs: the write operations; each reads the head, then inserts *)

add_author_head(w) ==
    \E name \in AuthorNames :
        ReadHead(w, "add_author", [name |-> name], "authors", "insert")

add_author_insert(w) ==
    /\ AtInsert(w, "add_author")
    /\ \E now \in Instants, io \in BOOLEAN :
        LET last_author == last[w]
            auth_id == next_id(last_author)
            author == Author(auth_id, args[w].name)
            hclink == HashChainLink_new(last_author.prior_sha256, author, now)
            row == [prior_id |-> last_author.prior_id,
                    auth_id |-> author.auth_id,
                    name |-> author.name,
                    prior_sha256 |-> last_author.prior_sha256,
                    write_timestamp |-> hclink.write_timestamp,
                    new_sha256 |-> new_sha256(hclink)]
        IN  Execute(w, "authors", row, io, None, "unwrap", author, hclink,
                    [content |-> author, hclink |-> hclink])

\* the image file registered before the head is read
add_article_head_mutant_image_first(w) ==
    \E image_file \in ImageFiles, io \in BOOLEAN :
        LET r == get_last_row(client_query_last(db["articles"], "art_id", io))
        IN  /\ Start(w, "add_article",
                     [auth_id |-> 0, title |-> "Initial Article",
                      image_file |-> image_file])
            /\ image_files' = image_files \cup
                    (IF image_file = None THEN {} ELSE {image_file[1]})
            /\ last' = [last EXCEPT ![w] = IF r.ok THEN r.val ELSE NoLastRow]
            /\ pc' = [pc EXCEPT ![w] = IF r.ok THEN "insert" ELSE "idle"]
            /\ ret' = [ret EXCEPT ![w] = IF r.ok THEN NotRun ELSE Panicked(r.err)]
            /\ built' = [built EXCEPT ![w] = NothingBuilt]
            /\ stmts' = [stmts EXCEPT ![w] = <<Select("articles")>>]
            /\ UNCHANGED <<db, images_mut, hash_integrity>>

add_article_head(w) ==
    \E image_file \in ImageFiles :
        ReadHead(w, "add_article",
                 [auth_id |-> 0, title |-> "Initial Article", image_file |-> image_file],
                 "articles",
                 IF image_file = None THEN "insert" ELSE "image_files")

\* INSERT INTO image_files ... ON CONFLICT (image_file) DO NOTHING
add_article_image_file(w) ==
    /\ pc[w] = "image_files"
    /\ op[w] = "add_article"
    /\ \E io \in BOOLEAN :
        IF io
        THEN /\ image_files' = image_files \cup {args[w].image_file[1]}
             /\ pc' = [pc EXCEPT ![w] = "insert"]
             /\ UNCHANGED ret
        ELSE /\ pc' = [pc EXCEPT ![w] = "idle"]
             /\ ret' = [ret EXCEPT ![w] = Panicked("db error")]
             /\ UNCHANGED image_files
    /\ stmts' = [stmts EXCEPT ![w] = Append(@, Insert("image_files"))]
    /\ UNCHANGED <<db, images_mut, hash_integrity, op, args, last, built, calls,
                   limit, tampered>>

\* the id of the new article taken one higher when the caller passes an image
add_article_insert_mutant_caller_id(w) ==
    /\ AtInsert(w, "add_article")
    /\ \E now \in Instants, io \in BOOLEAN :
        LET last_article == last[w]
            art_id == IF args[w].image_file = None THEN next_id(last_article)
                      ELSE next_id(last_article) + 1
            article == Article(art_id, args[w].auth_id, args[w].title,
                               args[w].image_file)
            hclink == HashChainLink_new(last_article.prior_sha256, article, now)
            row == [prior_id |-> last_article.prior_id,
                    art_id |-> art_id,
                    auth_id |-> args[w].auth_id,
                    title |-> article.title,
                    prior_sha256 |-> last_article.prior_sha256,
                    write_timestamp |-> hclink.write_timestamp,
                    new_sha256 |-> new_sha256(hclink),
                    image_file |-> article.image_file]
        IN  Execute(w, "articles", row, io, None, "unwrap", article, hclink,
                    [content |-> article, hclink |-> hclink])

add_article_insert(w) ==
    /\ AtInsert(w, "add_article")
    /\ \E now \in Instants, io \in BOOLEAN :
        LET last_article == last[w]
            art_id == next_id(last_article)
            article == Article(art_id, args[w].auth_id, args[w].title,
                               args[w].image_file)
            hclink == HashChainLink_new(last_article.prior_sha256, article, now)
            row == [prior_id |-> last_article.prior_id,
                    art_id |-> art_id,
                    auth_id |-> args[w].auth_id,
                    title |-> article.title,
                    prior_sha256 |-> last_article.prior_sha256,
                    write_timestamp |-> hclink.write_timestamp,
                    new_sha256 |-> new_sha256(hclink),
                    image_file |-> article.image_file]
        IN  Execute(w, "articles", row, io, None, "unwrap", article, hclink,
                    [content |-> article, hclink |-> hclink])

add_article_para_head(w) ==
    ReadHead(w, "add_article_para", [art_id |-> 0, md |-> "text"],
             "article_para", "insert")

add_article_para_insert(w) ==
    /\ AtInsert(w, "add_article_para")
    /\ \E now \in Instants, io \in BOOLEAN :
        LET last_para == last[w]
            apara_id == next_id(last_para)
            para == ArticlePara(apara_id, args[w].art_id, args[w].md)
            hclink == HashChainLink_new(last_para.prior_sha256, para, now)
            row == [prior_id |-> last_para.prior_id,
                    apara_id |-> apara_id,
                    art_id |-> args[w].art_id,
                    md |-> para.md,
                    prior_sha256 |-> last_para.prior_sha256,
                    write_timestamp |-> hclink.write_timestamp,
                    new_sha256 |-> new_sha256(hclink)]
        IN  Execute(w, "article_para", row, io, None, "unwrap", para, hclink,
                    [content |-> para, hclink |-> hclink])

add_youtube_channel_head(w) ==
    \E url \in ChannelUrls :
        ReadHead(w, "add_youtube_channel", [name |-> "Chan", url |-> url],
                 "youtube_channels", "insert")

add_youtube_channel_insert(w) ==
    /\ AtInsert(w, "add_youtube_channel")
    /\ \E now \in Instants, io \in BOOLEAN :
        LET last_chan == last[w]
            chan_id == next_id(last_chan)
            chan == YoutubeChannel(chan_id, to_lowercase(args[w].url), args[w].name)
            hclink == HashChainLink_new(last_chan.prior_sha256, chan, now)
            row == [prior_id |-> last_chan.prior_id,
                    chan_id |-> chan_id,
                    url |-> chan.url,
                    name |-> chan.name,
                    prior_sha256 |-> last_chan.prior_sha256,
                    write_timestamp |-> hclink.write_timestamp,
                    new_sha256 |-> new_sha256(hclink)]
        IN  Execute(w, "youtube_channels", row, io, None, "unwrap", chan, hclink,
                    [content |-> chan, hclink |-> hclink])

add_youtube_video_head(w) ==
    \E v \in VideoInputs :
        ReadHead(w, "add_youtube_video",
                 [title |-> "t", chan_id |-> 0, vid_pk |-> v[1],
                  date_uploaded |-> v[2]],
                 "youtube_videos", "insert")

\* the INSERT ends ON CONFLICT (vid_pk) DO NOTHING
add_youtube_video_insert(w) ==
    /\ AtInsert(w, "add_youtube_video")
    /\ \E now \in Instants, io \in BOOLEAN :
        LET last_vid == last[w]
            vid_id == next_id(last_vid)
            video == YoutubeVideo(vid_id, args[w].vid_pk, args[w].chan_id,
                                  args[w].title, args[w].date_uploaded)
            hclink == HashChainLink_new(last_vid.prior_sha256, video, now)
            row == [prior_id |-> last_vid.prior_id,
                    vid_id |-> vid_id,
                    vid_pk |-> video.vid_pk,
                    chan_id |-> video.chan_id,
                    title |-> video.title,
                    date_uploaded |-> video.date_uploaded,
                    prior_sha256 |-> last_vid.prior_sha256,
                    write_timestamp |-> hclink.write_timestamp,
                    new_sha256 |-> new_sha256(hclink)]
        IN  Execute(w, "youtube_videos", row, io, Some("vid_pk"), "unwrap",
                    video, hclink, [content |-> video, hclink |-> hclink])

add_image_immutable_head(w) ==
    \E url \in ImageUrls :
        ReadHead(w, "add_image_immutable",
                 [pair |-> ImagePair("full", "thmb", "alt", url, None)],
                 "images", "insert")

\* the only write operation whose INSERT ends in `?`, not in unwrap
add_image_immutable_insert(w) ==
    /\ AtInsert(w, "add_image_immutable")
    /\ \E now \in Instants, io \in BOOLEAN :
        LET last_ref == last[w]
            img_id == next_id(last_ref)
            ii == ImmutableImage(img_id, args[w].pair)
            hclink == HashChainLink_new(last_ref.prior_sha256, ii, now)
            row == [prior_id |-> last_ref.prior_id,
                    img_id |-> img_id,
                    src_full |-> ii.pair.src_full,
                    src_thmb |-> ii.pair.src_thmb,
                    alt |-> ii.pair.alt,
                    url |-> ii.pair.url,
                    archive |-> ii.pair.archive,
                    prior_sha256 |-> last_ref.prior_sha256,
                    write_timestamp |-> hclink.write_timestamp,
                    new_sha256 |-> new_sha256(hclink)]
        IN  Execute(w, "images", row, io, None, "try", ii, hclink, [id |-> img_id])

add_image_mutable_mutant_files(w) ==
    \E alt \in AltTexts, io \in BOOLEAN :
        LET mi == [pair |-> ImagePair("full", "thmb", alt, None, None), id |-> "nanoid"]
            row == [url |-> mi.pair.url, src_full |-> mi.pair.src_full,
                    src_thmb |-> mi.pair.src_thmb, alt |-> mi.pair.alt,
                    id |-> mi.id]
        IN  /\ Start(w, "add_image_mutable", [mi |-> mi])
            /\ IF io
               THEN /\ images_mut' = {r \in images_mut : r.id # row.id} \cup {row}
                    /\ ret' = [ret EXCEPT ![w] = Returned(Ok([unit |-> TRUE]))]
               ELSE /\ UNCHANGED images_mut
                    /\ ret' = [ret EXCEPT ![w] = Returned(Err("db error"))]
            /\ stmts' = [stmts EXCEPT ![w] = <<Insert("images_mut")>>]
            /\ built' = [built EXCEPT ![w] = NothingBuilt]
            /\ last' = [last EXCEPT ![w] = NoLastRow]
            /\ image_files' = image_files \cup {mi.id}
            /\ UNCHANGED <<db, hash_integrity, pc>>

\* INSERT INTO images_mut ... ON CONFLICT(id) DO UPDATE SET ...
add_image_mutable(w) ==
    \E alt \in AltTexts, io \in BOOLEAN :
        LET mi == [pair |-> ImagePair("full", "thmb", alt, None, None), id |-> "nanoid"]
            row == [url |-> mi.pair.url, src_full |-> mi.pair.src_full,
                    src_thmb |-> mi.pair.src_thmb, alt |-> mi.pair.alt,
                    id |-> mi.id]
        IN  /\ Start(w, "add_image_mutable", [mi |-> mi])
            /\ IF io
               THEN /\ images_mut' = {r \in images_mut : r.id # row.id} \cup {row}
                    /\ ret' = [ret EXCEPT ![w] = Returned(Ok([unit |-> TRUE]))]
               ELSE /\ UNCHANGED images_mut
                    /\ ret' = [ret EXCEPT ![w] = Returned(Err("db error"))]
            /\ stmts' = [stmts EXCEPT ![w] = <<Insert("images_mut")>>]
            /\ built' = [built EXCEPT ![w] = NothingBuilt]
            /\ last' = [last EXCEPT ![w] = NoLastRow]
            /\ UNCHANGED <<db, image_files, hash_integrity, pc>>

add_ref_article_head(w) ==
    \E refs_art \in RefArts :
        ReadHead(w, "add_ref_article",
                 [req |-> [rf |-> RefFrom(0, None, "see"),
                           refs_art |-> refs_art, refs_para |-> Some(0)]],
                 "article_ref_article", "insert")

add_ref_article_insert(w) ==
    /\ AtInsert(w, "add_ref_article")
    /\ \E now \in Instants, io \in BOOLEAN :
        LET last_ref == last[w]
            aref_id == next_id(last_ref)
            aref == ArticleRefArticle_from_req(args[w].req, aref_id)
            hclink == HashChainLink_new(last_ref.prior_sha256, aref, now)
            row == [prior_id |-> last_ref.prior_id,
                    aref_id |-> aref_id,
                    from_art |-> aref.rf.art_id,
                    from_para |-> aref.rf.apara_id,
                    refs_art |-> aref.refs_art,
                    refs_para |-> aref.refs_para,
                    comment |-> aref.rf.comment,
                    prior_sha256 |-> last_ref.prior_sha256,
                    write_timestamp |-> hclink.write_timestamp,
                    new_sha256 |-> new_sha256(hclink)]
        IN  Execute(w, "article_ref_article", row, io, None, "unwrap", aref, hclink,
                    [id |-> aref_id])

add_ref_video_head(w) ==
    \E sec_req \in SecReqs :
        ReadHead(w, "add_ref_video",
                 [req |-> [vid_pk |-> "dQw4w9WgXcQ",
                           rf |-> RefFrom(0, None, "see"), sec_req |-> sec_req]],
                 "article_ref_video", "insert")

add_ref_video_insert(w) ==
    /\ AtInsert(w, "add_ref_video")
    /\ \E now \in Instants, io \in BOOLEAN :
        LET last_ref == last[w]
            vref_id == next_id(last_ref)
            vref == ArticleRefVideo_from_req(args[w].req, vref_id)
            hclink == HashChainLink_new(last_ref.prior_sha256, vref, now)
            row == [prior_id |-> last_ref.prior_id,
                    vref_id |-> vref_id,
                    art_id |-> vref.rf.art_id,
                    apara_id |-> vref.rf.apara_id,
                    vid_pk |-> vref.vid_pk,
                    sec_req |-> vref.sec_req,
                    comment |-> vref.rf.comment,
                    prior_sha256 |-> last_ref.prior_sha256,
                    write_timestamp |-> hclink.write_timestamp,
                    new_sha256 |-> new_sha256(hclink)]
        IN  Execute(w, "article_ref_video", row, io, None, "unwrap", vref, hclink,
                    [id |-> vref_id])

add_ref_image_head(w) ==
    \E apara_id \in ParaRefs :
        ReadHead(w, "add_ref_image",
                 [req |-> [img_id |-> 0, rf |-> RefFrom(0, apara_id, "see")]],
                 "article_ref_image", "insert")

add_ref_image_insert(w) ==
    /\ AtInsert(w, "add_ref_image")
    /\ \E now \in Instants, io \in BOOLEAN :
        LET last_ref == last[w]
            iref_id == next_id(last_ref)
            iref == ArticleRefImage_from_req(args[w].req, iref_id)
            hclink == HashChainLink_new(last_ref.prior_sha256, iref, now)
            row == [prior_id |-> last_ref.prior_id,
                    iref_id |-> iref_id,
                    art_id |-> iref.rf.art_id,
                    apara_id |-> iref.rf.apara_id,
                    img_id |-> iref.img_id,
                    comment |-> iref.rf.comment,
                    prior_sha256 |-> last_ref.prior_sha256,
                    write_timestamp |-> hclink.write_timestamp,
                    new_sha256 |-> new_sha256(hclink)]
        IN  Execute(w, "article_ref_image", row, io, None, "unwrap", iref, hclink,
                    [id |-> iref_id])

-----------------------------------------------------------------------------
(* xtchr.rs: author_detail, a read that rebuilds the envelope of one author *)

\* the `authored` column of the author_detail view: the author's articles
Authored(auth_id) ==
    {[name |-> a.title, id |-> a.art_id] : a \in {x \in db["articles"] : x.auth_id = auth_id}}

author_detail_envelope_mutant_swap(auth_id, row) ==
    XtchdContent_new(row.prior_id, row.new_sha256, row.write_timestamp,
                     Author(auth_id, row.name), row.prior_sha256)

\* lines 115-122: the envelope built from the columns of the row
author_detail_envelope(auth_id, row) ==
    XtchdContent_new(row.prior_id, row.prior_sha256, row.write_timestamp,
                     Author(auth_id, row.name), row.new_sha256)

\* the stored hash compared with the recomputed one before the envelope is
\* handed out
author_detail_mutant_verify(w) ==
    \E auth_id \in AuthorIds, io \in BOOLEAN :
        LET rows == {r \in db["authors"] : r.auth_id = auth_id}
        IN  /\ Start(w, "author_detail", [auth_id |-> auth_id])
            /\ ret' = [ret EXCEPT ![w] =
                    IF ~io THEN Returned(Err("db error"))
                    ELSE IF rows = {} THEN Returned(Err("missing_row"))
                    ELSE LET row == CHOOSE r \in rows : TRUE
                             xc == author_detail_envelope(auth_id, row)
                         IN  IF new_sha256(xc.hcl) # xc.new_sha256
                             THEN Returned(Err("hash mismatch"))
                             ELSE Returned(Ok([author |-> xc,
                                               articles |-> Authored(auth_id)]))]
            /\ stmts' = [stmts EXCEPT ![w] = <<Select("author_detail")>>]
            /\ built' = [built EXCEPT ![w] = NothingBuilt]
            /\ last' = [last EXCEPT ![w] = NoLastRow]
            /\ UNCHANGED <<db, image_files, images_mut, hash_integrity, pc>>

\* rows.get(0) unwrapped, as writer.rs does it
author_detail_mutant_unwrap(w) ==
    \E auth_id \in AuthorIds, io \in BOOLEAN :
        LET rows == {r \in db["authors"] : r.auth_id = auth_id}
        IN  /\ Start(w, "author_detail", [auth_id |-> auth_id])
            /\ ret' = [ret EXCEPT ![w] =
                    IF ~io THEN Returned(Err("db error"))
                    ELSE IF rows = {} THEN Panicked("unwrap on None")
                    ELSE LET row == CHOOSE r \in rows : TRUE
                         IN  Returned(Ok([author |-> author_detail_envelope(auth_id, row),
                                          articles |-> Authored(auth_id)]))]
            /\ stmts' = [stmts EXCEPT ![w] = <<Select("author_detail")>>]
            /\ built' = [built EXCEPT ![w] = NothingBuilt]
            /\ last' = [last EXCEPT ![w] = NoLastRow]
            /\ UNCHANGED <<db, image_files, images_mut, hash_integrity, pc>>

\* the query without its WHERE auth_id = $1: the newest author is taken
author_detail_mutant_latest(w) ==
    \E auth_id \in AuthorIds, io \in BOOLEAN :
        LET rows == {r \in db["authors"] :
                        \A x \in db["authors"] : x.auth_id <= r.auth_id}
        IN  /\ Start(w, "author_detail", [auth_id |-> auth_id])
            /\ ret' = [ret EXCEPT ![w] =
                    IF ~io THEN Returned(Err("db error"))
                    ELSE IF rows = {} THEN Returned(Err("missing_row"))
                    ELSE LET row == CHOOSE r \in rows : TRUE
                         IN  Returned(Ok([author |-> author_detail_envelope(auth_id, row),
                                          articles |-> Authored(auth_id)]))]
            /\ stmts' = [stmts EXCEPT ![w] = <<Select("author_detail")>>]
            /\ built' = [built EXCEPT ![w] = NothingBuilt]
            /\ last' = [last EXCEPT ![w] = NoLastRow]
            /\ UNCHANGED <<db, image_files, images_mut, hash_integrity, pc>>

author_detail(w) ==
    \E auth_id \in AuthorIds, io \in BOOLEAN :
        LET rows == {r \in db["authors"] : r.auth_id = auth_id}
        IN  /\ Start(w, "author_detail", [auth_id |-> auth_id])
            /\ ret' = [ret EXCEPT ![w] =
                    IF ~io THEN Returned(Err("db error"))
                    ELSE IF rows = {} THEN Returned(Err("missing_row"))
                    ELSE LET row == CHOOSE r \in rows : TRUE
                         IN  Returned(Ok([author |-> author_detail_envelope(auth_id, row),
                                          articles |-> Authored(auth_id)]))]
            /\ stmts' = [stmts EXCEPT ![w] = <<Select("author_detail")>>]
            /\ built' = [built EXCEPT ![w] = NothingBuilt]
            /\ last' = [last EXCEPT ![w] = NoLastRow]
            /\ UNCHANGED <<db, image_files, images_mut, hash_integrity, pc>>

-----------------------------------------------------------------------------
(* xtchr.rs: Pool::get, article_text and enriched_article *)

\* lines 58-61: the checkout of a connection is unwrapped
Pool_get(w) ==
    \E conn \in BOOLEAN :
        /\ Start(w, "Pool_get", [none |-> TRUE])
        /\ ret' = [ret EXCEPT ![w] =
                IF conn THEN Returned(Ok([xtchr |-> TRUE])) ELSE Panicked("pool error")]
        /\ stmts' = [stmts EXCEPT ![w] = <<>>]
        /\ built' = [built EXCEPT ![w] = NothingBuilt]
        /\ last' = [last EXCEPT ![w] = NoLastRow]
        /\ UNCHANGED <<db, image_files, images_mut, hash_integrity, pc>>

\* the rows of a set of articles by descending art_id, at most n of them
RECURSIVE NewestFirst(_, _)
NewestFirst(rows, n) ==
    IF rows = {} \/ n = 0 THEN <<>>
    ELSE LET top == CHOOSE r \in rows : \A x \in rows : x.art_id <= r.art_id
         IN  <<Article(top.art_id, top.auth_id, top.title, top.image_file)>>
                \o NewestFirst(rows \ {top}, n - 1)

\* lines 75-88: SELECT ... FROM articles ORDER BY art_id DESC LIMIT 12
latest_headlines(w) ==
    \E io \in BOOLEAN :
        /\ Start(w, "latest_headlines", [none |-> TRUE])
        /\ ret' = [ret EXCEPT ![w] =
                IF ~io THEN Returned(Err("db error"))
                ELSE Returned(Ok([articles |-> NewestFirst(db["articles"], 12)]))]
        /\ stmts' = [stmts EXCEPT ![w] = <<Select("articles")>>]
        /\ built' = [built EXCEPT ![w] = NothingBuilt]
        /\ last' = [last EXCEPT ![w] = NoLastRow]
        /\ UNCHANGED <<db, image_files, images_mut, hash_integrity, pc>>

\* a row of a tracked table as the views hand it out: the JSON of XtchdSQL
to_xtchd_sql(table, r) ==
    XtchdSQL(r.prior_id, r.prior_sha256, RowContent(table, r), r.write_timestamp,
             r.new_sha256)

\* the rows of the article_text and enriched_article_fields views for art_id:
\* the article joined with its author, and the paragraphs of the article
article_fields(art_id) ==
    { [author |-> to_xtchd_sql("authors", p[2]),
       article |-> to_xtchd_sql("articles", p[1]),
       art_paras |-> { to_xtchd_sql("article_para", q) :
                        q \in {x \in db["article_para"] : x.art_id = art_id} }]
      : p \in { x \in db["articles"] \X db["authors"] :
                    x[1].art_id = art_id /\ x[2].auth_id = x[1].auth_id } }

\* lines 99-102: the columns of the row, each through FromSql (from_sql)
ArticleText(row) ==
    [author |-> XtchdContent_from_sql(row.author),
     article |-> XtchdContent_from_sql(row.article),
     paragraphs |-> { XtchdContent_from_sql(q) : q \in row.art_paras }]

article_text(w) ==
    \E art_id \in ArtIds, io \in BOOLEAN :
        LET rows == article_fields(art_id)
        IN  /\ Start(w, "article_text", [art_id |-> art_id])
            /\ ret' = [ret EXCEPT ![w] =
                    IF ~io THEN Returned(Err("db error"))
                    ELSE IF rows = {} THEN Returned(Err("missing_row"))
                    ELSE Returned(Ok(ArticleText(CHOOSE r \in rows : TRUE)))]
            /\ stmts' = [stmts EXCEPT ![w] = <<Select("article_text")>>]
            /\ built' = [built EXCEPT ![w] = NothingBuilt]
            /\ last' = [last EXCEPT ![w] = NoLastRow]
            /\ UNCHANGED <<db, image_files, images_mut, hash_integrity, pc>>

\* the refs column of enriched_article_fields for art_id: the references made
\* by the article as a whole, null when there is none (lib.rs, line 31)
article_refs(art_id) ==
    LET articles == {r \in db["article_ref_article"] :
                        r.from_art = art_id /\ r.from_para = None}
        videos == {r \in db["article_ref_video"] :
                        r.art_id = art_id /\ r.apara_id = None}
        images == {r \in db["article_ref_image"] :
                        r.art_id = art_id /\ r.apara_id = None}
    IN  IF articles = {} /\ videos = {} /\ images = {} THEN None
        ELSE Some([articles |-> {r.refs_art : r \in articles},
                   videos |-> {r.vid_pk : r \in videos},
                   images |-> {r.img_id : r \in images}])

\* the rows of the enriched_article_fields view for art_id
enriched_article_fields(art_id) ==
    { [author |-> r.author, article |-> r.article, refs |-> article_refs(art_id),
       art_paras |-> r.art_paras] : r \in article_fields(art_id) }

\* views.rs, line 317: row.get(2) read as References, which is not an Option
\* and so cannot take a null column
WasNull == "error retrieving column 2: a Postgres value was NULL"

\* views.rs, from_row of EnrichedArticle: author and article through FromSql,
\* refs as References
EnrichedArticle(row) ==
    [author |-> XtchdContent_from_sql(row.author),
     article |-> XtchdContent_from_sql(row.article),
     refs |-> row.refs[1],
     paragraphs |-> { XtchdContent_from_sql(q) : q \in row.art_paras }]

\* lines 128-134: cached_or_cache(...).await.unwrap(), then Some or None
enriched_article(w) ==
    \E art_id \in ArtIds, io \in BOOLEAN :
        LET rows == enriched_article_fields(art_id)
            row == CHOOSE r \in rows : TRUE
        IN  /\ Start(w, "enriched_article", [art_id |-> art_id])
            /\ ret' = [ret EXCEPT ![w] =
                    IF ~io THEN Panicked("db error")
                    ELSE IF rows = {} THEN Returned(Err("missing_row"))
                    ELSE IF row.refs = None THEN Panicked(WasNull)
                    ELSE Returned(Ok(EnrichedArticle(row)))]
            /\ stmts' = [stmts EXCEPT ![w] = <<Select("enriched_article_fields")>>]
            /\ built' = [built EXCEPT ![w] = NothingBuilt]
            /\ last' = [last EXCEPT ![w] = NoLastRow]
            /\ UNCHANGED <<db, image_files, images_mut, hash_integrity, pc>>

-----------------------------------------------------------------------------
(* A change of a stored hash made on the database, behind the program *)

\* a hash with one byte flipped: another string, of the same length
FlipByte(h) == "flipped(" \o h \o ")"

\* one row is changed, once
flip_stored_hash ==
    \E table \in TrackedTables :
        \E r \in db[table] :
            /\ tampered = {}
            /\ db' = [db EXCEPT ![table] =
                    (@ \ {r}) \cup {[r EXCEPT !.new_sha256 = FlipByte(@)]}]
            /\ tampered' = tampered \cup {<<table, r[IdCol(table)]>>}
            /\ UNCHANGED <<image_files, images_mut, hash_integrity, pc, op, args,
                           last, ret, built, stmts, calls, limit>>

-----------------------------------------------------------------------------
(* writer.rs: Pool::get, the checkout of a Writer with the current head *)

Writer(prior_id, prior_sha256) ==
    [prior_id |-> prior_id, prior_sha256 |-> prior_sha256]

\* conn is FALSE when the pool hands out no connection (returned by `?`);
\* the query and rows.get(0) are both unwrapped
writer_Pool_get(w) ==
    \E conn \in BOOLEAN, io \in BOOLEAN :
        LET rows == client_query_last(hash_integrity, "item_id", io)
        IN  /\ Start(w, "writer_Pool_get", [none |-> TRUE])
            /\ ret' = [ret EXCEPT ![w] =
                    IF ~conn THEN Returned(Err("pool error"))
                    ELSE IF ~rows.ok THEN Panicked(rows.err)
                    ELSE IF Len(rows.val) = 0 THEN Panicked("unwrap on None")
                    ELSE Returned(Ok(Writer(rows.val[1][1], rows.val[1][2])))]
            /\ stmts' = [stmts EXCEPT ![w] =
                    IF conn THEN <<Select("hash_integrity")>> ELSE <<>>]
            /\ built' = [built EXCEPT ![w] = NothingBuilt]
            /\ last' = [last EXCEPT ![w] =
                    IF conn /\ rows.ok /\ Len(rows.val) > 0
                    THEN Writer(rows.val[1][1], rows.val[1][2])
                    ELSE NoLastRow]
            /\ UNCHANGED <<db, image_files, images_mut, hash_integrity, pc>>

\* VerifiedItem::new(prior_id, prior_sha256, content) with the values write_row
\* reads from it: id(), uploaded_at, new_sha256()
VerifiedItem_new(prior_id, prior_sha256, content, now) ==
    [prior_id |-> prior_id,
     id |-> WrapI32(prior_id, 1),
     content |-> content,
     uploaded_at |-> now,
     prior_sha256 |-> prior_sha256,
     new_sha256 |-> sha256(state_string(content) \o " uploaded_at=" \o time_fmt(now)
                            \o " prior_sha256=" \o prior_sha256)]

\* the row of hash_integrity that write_row sends for vi
hash_integrity_row(vi) ==
    [prior_id |-> Some(vi.prior_id), item_id |-> vi.id, content |-> vi.content,
     uploaded_at |-> vi.uploaded_at, prior_sha256 |-> vi.prior_sha256,
     new_sha256 |-> vi.new_sha256]

\* task w holds a Writer: its last call handed one out or wrote through it
HoldsWriter(w) ==
    /\ op[w] \in {"writer_Pool_get", "write_row"}
    /\ ret[w].kind = "returned" /\ ret[w].res.ok

\* lines 36-45: the item is built from the Writer's prior_id and prior_sha256,
\* the INSERT is unwrapped, Ok(()) is returned; no field of self is assigned
write_row(w) ==
    /\ HoldsWriter(w)
    /\ \E name \in AuthorNames, now \in Instants, io \in BOOLEAN :
        LET content == Author(0, name)
            vi == VerifiedItem_new(last[w].prior_id, last[w].prior_sha256, content, now)
            row == hash_integrity_row(vi)
        IN  /\ Start(w, "write_row", [content |-> content])
            /\ hash_integrity' = IF io THEN hash_integrity \cup {row} ELSE hash_integrity
            /\ ret' = [ret EXCEPT ![w] =
                    IF io THEN Returned(Ok([unit |-> TRUE])) ELSE Panicked("db error")]
            /\ stmts' = [stmts EXCEPT ![w] = <<Insert("hash_integrity")>>]
            /\ built' = [built EXCEPT ![w] = Built("hash_integrity", content, vi, row)]
            /\ UNCHANGED <<db, image_files, images_mut, pc, last>>

-----------------------------------------------------------------------------
(* The system *)

\* empty tables and idle tasks
Fresh ==
    /\ db = [t \in TrackedTables |-> {}]
    /\ image_files = {}
    /\ images_mut = {}
    /\ hash_integrity = {}
    /\ pc = [w \in Tasks |-> "idle"]
    /\ op = [w \in Tasks |-> "none"]
    /\ args = [w \in Tasks |-> [none |-> TRUE]]
    /\ last = [w \in Tasks |-> NoLastRow]
    /\ ret = [w \in Tasks |-> NotRun]
    /\ built = [w \in Tasks |-> NothingBuilt]
    /\ stmts = [w \in Tasks |-> <<>>]
    /\ calls = 0
    /\ tampered = {}

Init == Fresh /\ limit = MaxCalls

Step(w) ==
    \/ add_author_head(w)
    \/ add_author_insert(w)
    \/ add_article_head(w)
    \/ add_article_image_file(w)
    \/ add_article_insert(w)
    \/ add_article_para_head(w)
    \/ add_article_para_insert(w)
    \/ add_youtube_channel_head(w)
    \/ add_youtube_channel_insert(w)
    \/ add_youtube_video_head(w)
    \/ add_youtube_video_insert(w)
    \/ add_image_immutable_head(w)
    \/ add_image_immutable_insert(w)
    \/ add_image_mutable(w)
    \/ add_ref_article_head(w)
    \/ add_ref_article_insert(w)
    \/ add_ref_video_head(w)
    \/ add_ref_video_insert(w)
    \/ add_ref_image_head(w)
    \/ add_ref_image_insert(w)
    \/ author_detail(w)
    \/ writer_Pool_get(w)

Next == \E w \in Tasks : Step(w)

\* tasks run concurrently, interleaved at their database round trips
Spec == Init /\ [][Next]_vars

\* a task takes a step only while every other task is idle
NextSerial == \E w \in Tasks : (\A v \in Tasks \ {w} : pc[v] = "idle") /\ Step(w)

\* the operations run one at a time, never interleaved
SpecSerial == Init /\ [][NextSerial]_vars

\* as Spec, and the runtime keeps polling every task: an operation that was
\* started and can take its next step takes it in the end
SpecFair == Spec /\ \A w \in Tasks : WF_vars(Step(w))

\* every operation of Xtchr, the reads included, tasks interleaved
StepAll(w) ==
    \/ Step(w)
    \/ Pool_get(w)
    \/ latest_headlines(w)
    \/ article_text(w)
    \/ enriched_article(w)

NextAll == \E w \in Tasks : StepAll(w)

SpecAll == Init /\ [][NextAll]_vars

\* authors and articles, the reads of them, and stored hashes changed behind
\* the program; the callers start one operation more than under Spec
InitDetail == Fresh /\ limit = MaxCalls + 1

StepDetail(w) ==
    \/ Pool_get(w)
    \/ add_author_head(w)
    \/ add_author_insert(w)
    \/ add_article_head(w)
    \/ add_article_image_file(w)
    \/ add_article_insert(w)
    \/ author_detail(w)
    \/ article_text(w)
    \/ enriched_article(w)

NextDetail == (\E w \in Tasks : StepDetail(w)) \/ flip_stored_hash

SpecDetail == InitDetail /\ [][NextDetail]_vars

\* authors and videos appended one call at a time; the callers start one
\* operation more than under Spec
StepVideo(w) ==
    \/ add_author_head(w)
    \/ add_author_insert(w)
    \/ add_youtube_video_head(w)
    \/ add_youtube_video_insert(w)

NextVideo == \E w \in Tasks : (\A v \in Tasks \ {w} : pc[v] = "idle") /\ StepVideo(w)

SpecVideo == InitDetail /\ [][NextVideo]_vars

\* the first row of hash_integrity, which Pool::get of writer.rs presumes
GenesisItem ==
    [prior_id |-> None, item_id |-> 0, content |-> Author(0, "genesis"),
     uploaded_at |-> CHOOSE t \in Instants : TRUE, prior_sha256 |-> Sentinel,
     new_sha256 |-> sha256("genesis")]

\* a database whose hash_integrity table holds its first row; the callers
\* start one operation more than under Spec
InitWriter ==
    /\ db = [t \in TrackedTables |-> {}]
    /\ image_files = {}
    /\ images_mut = {}
    /\ hash_integrity = {GenesisItem}
    /\ pc = [w \in Tasks |-> "idle"]
    /\ op = [w \in Tasks |-> "none"]
    /\ args = [w \in Tasks |-> [none |-> TRUE]]
    /\ last = [w \in Tasks |-> NoLastRow]
    /\ ret = [w \in Tasks |-> NotRun]
    /\ built = [w \in Tasks |-> NothingBuilt]
    /\ stmts = [w \in Tasks |-> <<>>]
    /\ calls = 0
    /\ tampered = {}
    /\ limit = MaxCalls + 2

StepWriter(w) == writer_Pool_get(w) \/ write_row(w)

NextWriter == \E w \in Tasks : StepWriter(w)

\* Writers checked out of the pool of writer.rs and rows written through them
SpecWriter == InitWriter /\ [][NextWriter]_vars

\* authors, articles and paragraphs appended by one task and read back by
\* another, which may read between the appender's head read and its insert;
\* the callers start two operations more than under Spec
InitRead == Fresh /\ limit = MaxCalls + 2

Appender == "t1"

Reader == "t2"

AppendStep(w) ==
    \/ add_author_head(w)
    \/ add_author_insert(w)
    \/ add_article_head(w)
    \/ add_article_image_file(w)
    \/ add_article_insert(w)
    \/ add_article_para_head(w)
    \/ add_article_para_insert(w)

ReadStep(w) ==
    \/ author_detail(w)
    \/ article_text(w)

NextRead == AppendStep(Appender) \/ ReadStep(Reader)

SpecRead == InitRead /\ [][NextRead]_vars

-----------------------------------------------------------------------------
(* The pure functions called on their own: state_string, from_timestamp and *)
(* next_id applied to values a caller may hold                              *)

\* content values with their optional fields absent and present, and with
\* text fields that hold the separator of the field after them
Contents ==
    {ImmutableImage(0, ImagePair("full", "thmb", "alt", url, archive)) :
        url \in {None, Some(""), Some("http://u")}, archive \in {None, Some("arch")}}
    \cup {ArticleRefArticle_from_req(
            [rf |-> RefFrom(0, apara_id, "see"), refs_art |-> 1, refs_para |-> refs_para],
            0) : apara_id \in {None, Some(0)}, refs_para \in {None, Some(3)}}
    \cup {ArticleRefVideo_from_req(
            [vid_pk |-> "dQw4w9WgXcQ", rf |-> RefFrom(0, apara_id, "see"),
             sec_req |-> sec_req],
            0) : apara_id \in {None, Some(0)}, sec_req \in {None, Some(42)}}
    \cup {ArticleRefImage_from_req(
            [img_id |-> 0, rf |-> RefFrom(0, apara_id, "see")], 0) :
                apara_id \in {None, Some(0)}}
    \cup {ArticlePage(0, 0, paragraphs, source) :
            paragraphs \in {<<>>, <<"a | b">>, <<"a", "b">>},
            source \in {PageSrc("Author", "splash.png"), PageSrc("Xtchd", 5),
                        PageSrc("WpTxYt", 9)}}
    \cup {YoutubeChannel(0, ch[1], ch[2]) :
            ch \in {<<"c", "a url=b">>, <<"b url=c", "a">>, <<"c", "a">>}}

\* the instant the links of the contents are built for
LinkInstant ==
    [year |-> 2023, month |-> 9, day |-> 5, hour |-> 7, minute |-> 3,
     second |-> 9, nano |-> 0]

\* chain heads, up to the largest id an i32 holds
HeadIds == {None, Some(0), Some(1), Some(I32Max - 1), Some(I32Max)}

\* i + 1 does not fit an i32
next_id_overflows(l) == l.prior_id # None /\ l.prior_id[1] > I32Max - 1

\* a call that touches no table and ends at once with outcome r
PureCall(w, o, a, r) ==
    /\ Start(w, o, a)
    /\ ret' = [ret EXCEPT ![w] = r]
    /\ stmts' = [stmts EXCEPT ![w] = <<>>]
    /\ built' = [built EXCEPT ![w] = NothingBuilt]
    /\ last' = [last EXCEPT ![w] = NoLastRow]
    /\ UNCHANGED <<db, image_files, images_mut, hash_integrity, pc>>

\* Xtchable::state_string of a content value
call_state_string(w) ==
    \E c \in Contents :
        PureCall(w, "state_string", [content |-> c],
                 Returned(Ok([string |-> state_string(c)])))

\* HashChainLink::from_timestamp of a content value
call_from_timestamp(w) ==
    \E c \in Contents :
        PureCall(w, "from_timestamp", [content |-> c],
                 Returned(Ok([hclink |->
                    HashChainLink_from_timestamp(Sentinel, LinkInstant, c)])))

\* LastRow::next_id; i + 1 past the largest i32 panics in a build with
\* overflow checks and wraps in one without
call_next_id(w) ==
    \E h \in HeadIds, checks \in BOOLEAN :
        LET l == LastRow(h, Sentinel)
        IN  PureCall(w, "next_id", [head |-> l],
                     IF checks /\ next_id_overflows(l)
                     THEN Panicked("attempt to add with overflow")
                     ELSE Returned(Ok([id |-> next_id(l)])))

StepFn(w) ==
    \/ call_state_string(w)
    \/ call_from_timestamp(w)
    \/ call_next_id(w)

NextFn == \E w \in Tasks : StepFn(w)

SpecFn == Init /\ [][NextFn]_vars

-----------------------------------------------------------------------------
(* Vocabulary of the properties *)

RowId(table, r) == r[IdCol(table)]

\* r2 follows r1 in id order with no row between them
Adjacent(table, r1, r2) ==
    /\ RowId(table, r1) < RowId(table, r2)
    /\ ~ \E r3 \in db[table] :
            RowId(table, r1) < RowId(table, r3) /\ RowId(table, r3) < RowId(table, r2)

SameSecond(t1, t2) == [t1 EXCEPT !.nano = 0] = [t2 EXCEPT !.nano = 0]

ReturnedOk(w) == ret[w].kind = "returned" /\ ret[w].res.ok

\* the operations that return (content, HashChainLink)
ContentOps ==
    {"add_author", "add_article", "add_article_para", "add_youtube_channel",
     "add_youtube_video"}

\* the table an operation appends to
OwnTable(o) ==
    CASE o = "add_author" -> "authors"
      [] o = "add_article" -> "articles"
      [] o = "add_article_para" -> "article_para"
      [] o = "add_youtube_channel" -> "youtube_channels"
      [] o = "add_youtube_video" -> "youtube_videos"
      [] o = "add_image_immutable" -> "images"
      [] o = "add_ref_article" -> "article_ref_article"
      [] o = "add_ref_video" -> "article_ref_video"
      [] o = "add_ref_image" -> "article_ref_image"
      [] o = "add_image_mutable" -> "images_mut"
      [] OTHER -> "no table"

-----------------------------------------------------------------------------
(* C1: with the appends run one at a time from empty tables, any two rows of
   a tracked table that are adjacent in id order are linked: the later row's
   prior_sha256 is the earlier row's new_sha256 and its prior_id is the
   earlier row's id. *)
C1_ChainContinuity ==
    \A table \in TrackedTables : \A r1, r2 \in db[table] :
        Adjacent(table, r1, r2) =>
            /\ r2.prior_sha256 = r1.new_sha256
            /\ r2.prior_id = Some(RowId(table, r1))

\* a table holds two linked rows
C1_Witness ==
    \E table \in TrackedTables \ {"youtube_videos"} : \E r1, r2 \in db[table] :
        Adjacent(table, r1, r2)

(* C2: the first row of a tracked table has id 0, no prior_id and the
   sentinel of 64 zeros as prior_sha256; a row with id > 0 never has a null
   prior_id nor the sentinel. *)
C2_Genesis ==
    /\ Len(Sentinel) = 64
    /\ \A table \in TrackedTables : \A r \in db[table] :
        /\ (\A s \in db[table] : RowId(table, r) <= RowId(table, s)) =>
                /\ RowId(table, r) = 0
                /\ r.prior_id = None
                /\ r.prior_sha256 = Sentinel
        /\ RowId(table, r) > 0 =>
                /\ r.prior_id # None
                /\ r.prior_sha256 # Sentinel

\* a table holds its genesis row and a row after it
C2_Witness ==
    \E table \in TrackedTables : \E r0, r1 \in db[table] :
        RowId(table, r0) = 0 /\ RowId(table, r1) > 0

(* C3: with the appends run one at a time, the head a running operation
   holds is the highest-id row of its table (or none), the ids of a table
   with n rows are exactly 0..n-1 with no duplicate, and every row after the
   first has prior_id = id - 1. *)
C3_DenseIds ==
    /\ \A table \in TrackedTables :
        /\ {RowId(table, r) : r \in db[table]} = 0 .. (Cardinality(db[table]) - 1)
        /\ \A r1, r2 \in db[table] : RowId(table, r1) = RowId(table, r2) => r1 = r2
        /\ \A r \in db[table] :
                RowId(table, r) > 0 => r.prior_id = Some(RowId(table, r) - 1)
    /\ \A w \in Tasks : pc[w] # "idle" =>
        LET table == OwnTable(op[w])
        IN  /\ next_id(last[w]) = Cardinality(db[table])
            /\ last[w].prior_id = None <=> db[table] = {}

\* the second append to a table has returned: the table holds two rows and the
\* row just sent has id 1, one more than the head that was read
C3_Witness ==
    \E w \in Tasks :
        /\ ReturnedOk(w)
        /\ built[w].made
        /\ Cardinality(db[built[w].table]) = 2
        /\ last[w].prior_id = Some(0)
        /\ RowId(built[w].table, built[w].row) = 1

\* task w holds a hash chain link: the one its write operation built, or the
\* one of the envelope author_detail returned to it
HasLink(w) == built[w].made \/ (ReturnedOk(w) /\ op[w] = "author_detail")

\* the content, predecessor hash and timestamp that link was built from, and
\* its digest
LinkAt(w) ==
    IF built[w].made
    THEN [content |-> built[w].content, prior_sha256 |-> last[w].prior_sha256,
          write_timestamp |-> built[w].hclink.write_timestamp,
          digest |-> new_sha256(built[w].hclink)]
    ELSE LET xc == ret[w].res.val.author
         IN  [content |-> xc.content, prior_sha256 |-> xc.prior_sha256,
              write_timestamp |-> xc.hcl.write_timestamp,
              digest |-> new_sha256(xc.hcl)]

(* C4: the string_to_hash of the link a write operation builds is
   state_string(content) + " write_timestamp=" + time_fmt(t) +
   " prior_sha256=" + the head's hash, with t the time captured by
   HashChainLink::new, and the digest sent is the SHA-256 of that string;
   two links built from the same content and predecessor hash with
   timestamps in the same whole second have the same digest. *)
C4_HashChainLink ==
    /\ \A w \in Tasks : built[w].made =>
        /\ built[w].hclink.write_timestamp \in Instants
        /\ built[w].hclink.string_to_hash =
                state_string(built[w].content)
                    \o " write_timestamp=" \o time_fmt(built[w].hclink.write_timestamp)
                    \o " prior_sha256=" \o last[w].prior_sha256
        /\ built[w].row.new_sha256 = sha256(built[w].hclink.string_to_hash)
    /\ \A w1, w2 \in Tasks : (HasLink(w1) /\ HasLink(w2)) =>
        LET l1 == LinkAt(w1)
            l2 == LinkAt(w2)
        IN  (/\ l1.content = l2.content
             /\ l1.prior_sha256 = l2.prior_sha256
             /\ SameSecond(l1.write_timestamp, l2.write_timestamp))
                => l1.digest = l2.digest

\* two links of the same content and predecessor whose timestamps differ
\* within one second: the one add_author built and the one author_detail
\* rebuilt from the stored row
C4_Witness ==
    \E w1, w2 \in Tasks :
        /\ built[w1].made /\ ReturnedOk(w2) /\ op[w2] = "author_detail"
        /\ LinkAt(w1).content = LinkAt(w2).content
        /\ LinkAt(w1).prior_sha256 = LinkAt(w2).prior_sha256
        /\ LinkAt(w1).write_timestamp # LinkAt(w2).write_timestamp
        /\ SameSecond(LinkAt(w1).write_timestamp, LinkAt(w2).write_timestamp)

\* the envelope XtchdContent::from_sql rebuilds from a stored row
Rebuilt(table, r) ==
    XtchdContent_from_sql(XtchdSQL(r.prior_id, r.prior_sha256, RowContent(table, r),
                                   r.write_timestamp, r.new_sha256))

(* C5: the envelope rebuilt from the stored facts of a row (prior_id,
   prior_sha256, content, write_timestamp, new_sha256), by
   XtchdContent::from_sql or by author_detail, recomputes a hash equal to the
   stored new_sha256, which is the hash the write operation computed. *)
C5_RoundTrip ==
    /\ \A table \in TrackedTables : \A r \in db[table] :
        LET xc == Rebuilt(table, r)
            recomputed == new_sha256(xc.hcl)
        IN  /\ recomputed = xc.new_sha256
            /\ xc.new_sha256 = r.new_sha256
            /\ \A w \in Tasks :
                (/\ built[w].made /\ ReturnedOk(w) /\ built[w].table = table
                 /\ r = [built[w].row EXCEPT !.write_timestamp = pg_timestamp(@)])
                    => recomputed = new_sha256(built[w].hclink)
    /\ \A w \in Tasks : (ReturnedOk(w) /\ op[w] = "author_detail") =>
        LET xc == ret[w].res.val.author
        IN  /\ new_sha256(xc.hcl) = xc.new_sha256
            /\ \E r \in db["authors"] :
                    /\ r.new_sha256 = xc.new_sha256
                    /\ RowContent("authors", r) = xc.content

\* author_detail returned the envelope of a row whose stored timestamp lost
\* the sub-microsecond digits the writer hashed with
C5_Witness ==
    \E w \in Tasks : \E r \in db["authors"] :
        /\ ReturnedOk(w) /\ op[w] = "author_detail"
        /\ ret[w].res.val.author.new_sha256 = r.new_sha256
        /\ r.write_timestamp.nano = 123456000

\* the columns of a tracked table that carry its content (image_file of
\* articles is left out: the state_string of xrows::Article is only known
\* from rows.rs, where the struct has no such field)
ContentColumns(table) ==
    CASE table = "authors" -> {"auth_id", "name"}
      [] table = "articles" -> {"art_id", "auth_id", "title"}
      [] table = "article_para" -> {"apara_id", "art_id", "md"}
      [] table = "youtube_channels" -> {"chan_id", "url", "name"}
      [] table = "youtube_videos" ->
            {"vid_id", "vid_pk", "chan_id", "title", "date_uploaded"}
      [] table = "images" ->
            {"img_id", "src_full", "src_thmb", "alt", "url", "archive"}
      [] table = "article_ref_article" ->
            {"aref_id", "from_art", "from_para", "refs_art", "refs_para", "comment"}
      [] table = "article_ref_video" ->
            {"vref_id", "art_id", "apara_id", "vid_pk", "sec_req", "comment"}
      [] table = "article_ref_image" ->
            {"iref_id", "art_id", "apara_id", "img_id", "comment"}

\* values a tamperer may write into column f of a table, by the column's type
ColumnValues(table, f) ==
    IF f = "archive" \/ (table = "images" /\ f = "url")
    THEN {None, Some(""), Some("other")}
    ELSE IF \/ f \in {"from_para", "refs_para", "sec_req"}
            \/ (table \in {"article_ref_video", "article_ref_image"} /\ f = "apara_id")
    THEN {None, Some(0), Some(7)}
    ELSE IF f \in {"auth_id", "art_id", "apara_id", "chan_id", "vid_id", "img_id",
                   "aref_id", "vref_id", "iref_id", "from_art", "refs_art"}
    THEN {0, 1, 7}
    ELSE IF f = "date_uploaded" THEN {"2005-04-23", "2009-10-25"}
    ELSE {"other", "another"}

\* the string hashed for a row's content, timestamp and predecessor hash
RowStringToHash(table, r) ==
    HashChainLink_from_timestamp(r.prior_sha256, r.write_timestamp,
                                 RowContent(table, r)).string_to_hash

(* C6: changing any single content field of a stored row, with its timestamp
   and predecessor hash kept, changes the string that is hashed, for every
   tracked content type. *)
C6_TamperDetection ==
    \A table \in TrackedTables : \A r \in db[table] :
        \A f \in ContentColumns(table) : \A v \in ColumnValues(table, f) :
            v # r[f] =>
                RowStringToHash(table, [r EXCEPT ![f] = v]) # RowStringToHash(table, r)

\* the hash rule applied to the values of a row
RuleHash(table, r) ==
    sha256(state_string(RowContent(table, r))
            \o " write_timestamp=" \o time_fmt(r.write_timestamp)
            \o " prior_sha256=" \o r.prior_sha256)

(* C7: the new_sha256 an add_* operation sends in its INSERT is the hash rule
   applied to the other values it sends, and to those values as the database
   stores them; no operation ends with the CHECK constraint rejecting its
   insert; every row of a tracked table satisfies
   new_sha256 = hash(state_string(content) + timestamp + prior_sha256). *)
C7_InsertSatisfiesCheck ==
    /\ \A w \in Tasks : built[w].made =>
        /\ built[w].row.new_sha256 = RuleHash(built[w].table, built[w].row)
        /\ built[w].row.new_sha256 =
                RuleHash(built[w].table,
                         [built[w].row EXCEPT !.write_timestamp = pg_timestamp(@)])
    /\ \A w \in Tasks :
        /\ ret[w].kind = "panic" => ret[w].why # "check_violation"
        /\ (ret[w].kind = "returned" /\ ~ret[w].res.ok)
                => ret[w].res.err # "check_violation"
    /\ \A table \in TrackedTables : \A r \in db[table] :
            r.new_sha256 = RuleHash(table, r)

\* an insert whose timestamp carried digits the database does not keep was
\* accepted: its row is stored with the timestamp truncated
C7_Witness ==
    \E w \in Tasks :
        /\ ReturnedOk(w) /\ built[w].made
        /\ pg_timestamp(built[w].row.write_timestamp) # built[w].row.write_timestamp
        /\ [built[w].row EXCEPT !.write_timestamp = pg_timestamp(@)]
                \in db[built[w].table]

(* C8: when a write operation returns Ok with a content value and its hash
   chain link, its table holds a row with that id, that content and that
   link's hash. *)
C8_ReturnedIsPersisted ==
    \A w \in Tasks :
        (ReturnedOk(w) /\ op[w] \in ContentOps /\ built[w].made) =>
            \E r \in db[OwnTable(op[w])] :
                /\ RowContent(OwnTable(op[w]), r) = ret[w].res.val.content
                /\ r.new_sha256 = new_sha256(ret[w].res.val.hclink)

\* the write operations of Xtchr
WriteOps ==
    {"add_author", "add_article", "add_article_para", "add_youtube_channel",
     "add_youtube_video", "add_image_immutable", "add_image_mutable",
     "add_ref_article", "add_ref_video", "add_ref_image"}

\* the step is taken by task w: no other task's position or locals change
Acts(w) ==
    \A v \in Tasks \ {w} :
        /\ pc'[v] = pc[v] /\ op'[v] = op[v] /\ args'[v] = args[v]
        /\ ret'[v] = ret[v] /\ stmts'[v] = stmts[v]
        /\ built'[v] = built[v] /\ last'[v] = last[v]

\* the number of INSERT statements among the statements a task issued
RECURSIVE InsertCount(_)
InsertCount(ss) ==
    IF ss = <<>> THEN 0
    ELSE (IF Head(ss).kind = "INSERT" THEN 1 ELSE 0) + InsertCount(Tail(ss))

\* a step of task w leaves every tracked table but that of its operation, and
\* hash_integrity, as they were, changes images_mut only in add_image_mutable,
\* and adds at most one row to its own table
OwnTableOnly(w) ==
    /\ \A table \in TrackedTables :
        IF table = OwnTable(op'[w])
        THEN \/ db'[table] = db[table]
             \/ \E r \in db'[table] : r \notin db[table] /\ db'[table] = db[table] \cup {r}
        ELSE db'[table] = db[table]
    /\ op'[w] # "add_image_mutable" => images_mut' = images_mut
    /\ hash_integrity' = hash_integrity

\* C9 as stated: a write operation issues exactly one modifying statement,
\* the insert into its own table, and no step of it changes another table
C9_SingleStatement ==
    [][\A w \in Tasks : Acts(w) =>
            /\ OwnTableOnly(w)
            /\ image_files' = image_files
            /\ (op'[w] \in WriteOps /\ pc'[w] = "idle" /\ ret'[w].kind = "returned"
                    /\ ret'[w].res.ok)
                => /\ InsertCount(stmts'[w]) = 1
                   /\ stmts'[w][Len(stmts'[w])] = Insert(OwnTable(op'[w]))]_vars

(* C9: a write operation that returns Ok has issued exactly one INSERT into
   its own table, as its last statement, and no step of it changes any other
   tracked table, images_mut (but for add_image_mutable) or hash_integrity;
   the one other modifying statement is that of add_article called with a
   present image_file, which first issues one INSERT INTO image_files of that
   file name (a no-op when the name is already there). *)
C9_OwnTableAndImageFile ==
    [][\A w \in Tasks : Acts(w) =>
            /\ OwnTableOnly(w)
            /\ IF op[w] = "add_article" /\ pc[w] = "image_files"
               THEN /\ args[w].image_file # None
                    /\ \/ image_files' = image_files
                       \/ image_files' = image_files \cup {args[w].image_file[1]}
               ELSE image_files' = image_files
            /\ (op'[w] \in WriteOps /\ pc'[w] = "idle" /\ ret'[w].kind = "returned"
                    /\ ret'[w].res.ok)
                => /\ stmts'[w][Len(stmts'[w])] = Insert(OwnTable(op'[w]))
                   /\ InsertCount(stmts'[w]) =
                        IF op'[w] = "add_article" /\ args'[w].image_file # None
                        THEN 2 ELSE 1
                   /\ InsertCount(stmts'[w]) = 2
                        => stmts'[w][Len(stmts'[w]) - 1] = Insert("image_files")]_vars

\* add_article with a present image_file returned Ok: the file name is in
\* image_files and the article in articles
C9_Witness ==
    \E w \in Tasks :
        /\ ReturnedOk(w) /\ op[w] = "add_article"
        /\ args[w].image_file # None
        /\ args[w].image_file[1] \in image_files
        /\ stmts[w] = <<Select("articles"), Insert("image_files"), Insert("articles")>>
        /\ \E r \in db["articles"] : r.image_file = args[w].image_file

(* C10: reading the head of an empty table is not an error: a write operation
   that read an empty table holds the head (no id, sentinel) and goes on, and
   no operation, Pool::get of writer.rs included, panics on an empty result. *)
C10_EmptyHeadIsValid ==
    \A w \in Tasks :
        /\ (pc[w] # "idle" /\ last[w].prior_id = None)
                => last[w].prior_sha256 = Sentinel
        /\ ~(ret[w].kind = "panic" /\ ret[w].why = "unwrap on None")

-----------------------------------------------------------------------------
(* Failures and how they reach the caller *)

\* the errors of a failed round trip: to the database, or to the pool
IoErrors == {"db error", "pool error"}

\* a rejection of an INSERT by a constraint of the table
Rejections == {"check_violation", "unique_violation"}

(* C11: a connection or query failure at any step of an operation (pool     *)
(* checkout, chain-head read, insert, cached read) reaches the caller as an *)
(* Err of the operation's Result: no operation ends in a panic because a    *)
(* round trip failed.                                                       *)
C11_IoFailureIsErr ==
    \A w \in Tasks : ret[w].kind = "panic" => ret[w].why \notin IoErrors

\* task w has ended its write operation at the chain-head read, which failed
HeadReadFailed(w) ==
    /\ op[w] \in WriteOps \ {"add_image_mutable"}
    /\ pc[w] = "idle"
    /\ ret[w].kind # "none"
    /\ stmts[w] = <<Select(OwnTable(op[w]))>>

\* the head of a table as a reader that never failed before finds it
HeadOf(table) ==
    IF db[table] = {} THEN LastRow(None, Sentinel)
    ELSE LET top == CHOOSE r \in db[table] :
                        \A x \in db[table] : RowId(table, x) <= RowId(table, r)
         IN  LastRow(Some(RowId(table, top)), top.new_sha256)

(* C12: a write operation whose chain-head read fails has modified no      *)
(* table, and when the task runs the operation again its head read finds   *)
(* what a task that never failed would find: the failed attempt leaves     *)
(* nothing behind.                                                         *)
C12_FailedHeadReadLeavesNothing ==
    [][\A w \in Tasks :
        /\ (Acts(w) /\ calls' = calls + 1 /\ HeadReadFailed(w)')
            => /\ db' = db
               /\ image_files' = image_files
               /\ images_mut' = images_mut
               /\ hash_integrity' = hash_integrity
        /\ (Acts(w) /\ calls' = calls + 1 /\ HeadReadFailed(w)
                /\ op'[w] = op[w] /\ pc'[w] # "idle")
            => /\ last'[w] = HeadOf(OwnTable(op[w]))
               /\ db' = db
    ]_vars

\* a head read has failed on a table that holds a row
C12_Witness ==
    \E w \in Tasks : HeadReadFailed(w) /\ db[OwnTable(op[w])] # {}

\* the number of times statement st is among the statements a task issued
RECURSIVE StmtCount(_, _)
StmtCount(ss, st) ==
    IF ss = <<>> THEN 0
    ELSE (IF Head(ss) = st THEN 1 ELSE 0) + StmtCount(Tail(ss), st)

\* the operation of task w ended because the table rejected its INSERT
Rejected(w) ==
    \/ ret[w].kind = "panic" /\ ret[w].why \in Rejections
    \/ ret[w].kind = "returned" /\ ~ret[w].res.ok /\ ret[w].res.err \in Rejections

(* C13: one invocation of an add_* operation issues at most one chain-head *)
(* read and at most one insert against its tracked table, and an insert    *)
(* the table rejected is the last statement of the invocation: the         *)
(* operation has ended and nothing is retried.                             *)
C13_NoRetry ==
    \A w \in Tasks :
        op[w] \in WriteOps \ {"add_image_mutable"} =>
            LET own == OwnTable(op[w])
            IN  /\ StmtCount(stmts[w], Select(own)) <= 1
                /\ StmtCount(stmts[w], Insert(own)) <= 1
                /\ Rejected(w) =>
                    /\ pc[w] = "idle"
                    /\ stmts[w][Len(stmts[w])] = Insert(own)
                    /\ stmts[w][1] = Select(own)

\* an insert was rejected: two tasks read the same head, the second collides
C13_Witness ==
    \E w \in Tasks : op[w] \in WriteOps /\ Rejected(w)

\* what reaches the caller of an operation: the Result it returned, or
\* nothing but the abort of the task when an unwrap panicked
Reported(o) == IF o.kind = "returned" THEN o.res ELSE [abort |-> TRUE]

\* the operation of task w ended on a failed round trip
IoFailed(w) ==
    \/ ret[w].kind = "panic" /\ ret[w].why \in IoErrors
    \/ ret[w].kind = "returned" /\ ~ret[w].res.ok /\ ret[w].res.err \in IoErrors

\* the read of task w found no row
MissingRow(w) ==
    ret[w].kind = "returned" /\ ~ret[w].res.ok /\ ret[w].res.err = "missing_row"

\* author_detail of task w handed out an envelope whose stored hash is not
\* the hash of its own string_to_hash
ReadMismatch(w) ==
    /\ op[w] = "author_detail"
    /\ ReturnedOk(w)
    /\ new_sha256(ret[w].res.val.author.hcl) # ret[w].res.val.author.new_sha256

(* C14: what the caller is told of an integrity violation (an INSERT the   *)
(* table rejected, or a stored hash that is not the recomputed one) differs *)
(* from what it is told of a missing row and of a failed round trip.        *)
C14_IntegrityIsDistinct ==
    \A w1, w2 \in Tasks :
        ((Rejected(w1) \/ ReadMismatch(w1)) /\ (MissingRow(w2) \/ IoFailed(w2)))
            => Reported(ret[w1]) # Reported(ret[w2])

-----------------------------------------------------------------------------
(* The detail reads *)

DetailReads == {"article_text", "author_detail", "enriched_article"}

\* the row the detail read of task w asked for is in the database
RowPresent(w) ==
    IF op[w] = "author_detail"
    THEN \E r \in db["authors"] : r.auth_id = args[w].auth_id
    ELSE \E a \in db["articles"] :
            /\ a.art_id = args[w].art_id
            /\ \E u \in db["authors"] : u.auth_id = a.auth_id

(* C15: a detail read (article_text, author_detail, enriched_article) of an *)
(* id that has no row, its round trip having worked, returns the            *)
(* missing-row error: it returns no envelope, reports nothing else, and     *)
(* does not panic.  An envelope is returned only for a row that exists.     *)
C15_MissingRow ==
    \A w \in Tasks :
        op[w] \in DetailReads =>
            /\ ReturnedOk(w) => RowPresent(w)
            /\ (~RowPresent(w) /\ ~IoFailed(w))
                => ret[w] = Returned(Err("missing_row"))

\* two detail reads of ids without a row have returned
C15_Witness ==
    \E w1, w2 \in Tasks :
        /\ op[w1] = "enriched_article" /\ MissingRow(w1) /\ ~RowPresent(w1)
        /\ op[w2] \in {"article_text", "author_detail"}
        /\ MissingRow(w2) /\ ~RowPresent(w2)

\* the envelopes a detail read of task w handed out
Envelopes(w) ==
    IF op[w] = "author_detail" THEN {ret[w].res.val.author}
    ELSE {ret[w].res.val.author, ret[w].res.val.article}
            \cup ret[w].res.val.paragraphs

\* the stored hash of envelope xc is the hash of its rebuilt string
HashAgrees(xc) == new_sha256(xc.hcl) = xc.new_sha256

\* C16 as stated: the read path compares the recomputed hash with the stored
\* one, so a read that hands out envelopes has found every one of them valid
C16_ReadReportsInvalid ==
    \A w \in Tasks :
        (op[w] \in DetailReads /\ ReturnedOk(w)) =>
            \A xc \in Envelopes(w) : HashAgrees(xc)

(* C16, amended: the envelope rebuilt from a stored row carries the stored  *)
(* new_sha256 unchanged next to the string rebuilt from the stored facts;   *)
(* the two disagree exactly for the row whose stored hash was flipped and   *)
(* agree for every untouched row.  The read compares nothing: an envelope   *)
(* it hands out with a disagreeing hash is that of the flipped row.         *)
C16_EnvelopeShowsFlip ==
    /\ \A table \in TrackedTables : \A r \in db[table] :
        LET xc == Rebuilt(table, r)
        IN  /\ xc.new_sha256 = r.new_sha256
            /\ HashAgrees(xc) <=> <<table, RowId(table, r)>> \notin tampered
    /\ \A w \in Tasks :
        (op[w] \in DetailReads /\ ReturnedOk(w)) =>
            \A xc \in Envelopes(w) :
                ~HashAgrees(xc) =>
                    \E table \in TrackedTables : \E r \in db[table] :
                        /\ <<table, RowId(table, r)>> \in tampered
                        /\ xc = Rebuilt(table, r)

\* a chain of two authors, the hash of row 0 flipped, and author_detail has
\* handed out the envelope of row 0 with the disagreeing hash
C16_Witness ==
    /\ Cardinality(db["authors"]) = 2
    /\ tampered = {<<"authors", 0>>}
    /\ \E r \in db["authors"] : r.auth_id = 1 /\ HashAgrees(Rebuilt("authors", r))
    /\ \E w \in Tasks : op[w] = "author_detail" /\ ReturnedOk(w) /\ ReadMismatch(w)

\* envelope xc carries the stored facts of row r of the table
CarriesFacts(xc, table, r) ==
    /\ xc.prior_id = r.prior_id
    /\ xc.prior_sha256 = r.prior_sha256
    /\ xc.content = RowContent(table, r)
    /\ xc.dtype = RowContent(table, r).dtype
    /\ xc.hcl.write_timestamp = r.write_timestamp
    /\ xc.write_timestamp_str = time_fmt(r.write_timestamp)
    /\ xc.new_sha256 = r.new_sha256

(* C17: envelope reconstruction never fails.  A detail read whose row is   *)
(* there and whose round trip worked returns envelopes, each carrying the   *)
(* stored facts of a row as they are, also when the stored new_sha256 is    *)
(* not the hash of the content (a row changed behind the program).          *)
C17_ReconstructionIsTotal ==
    [][\A w \in Tasks :
        (/\ author_detail(w) \/ article_text(w)
         /\ RowPresent(w)'
         /\ ~IoFailed(w)')
            => /\ ReturnedOk(w)'
               /\ \A xc \in Envelopes(w)' :
                    \E table \in TrackedTables : \E r \in db[table] :
                        CarriesFacts(xc, table, r)
    ]_vars

\* article_text has handed out the envelopes of an article and its author,
\* one of them with a stored hash that is not the hash of its content
C17_Witness ==
    \E w \in Tasks :
        /\ op[w] = "article_text" /\ ReturnedOk(w)
        /\ \E xc \in Envelopes(w) : ~HashAgrees(xc)

-----------------------------------------------------------------------------
(* Two writers on one table *)

\* the row of task w as the table stores it
StoredRow(w) == [built[w].row EXCEPT !.write_timestamp = pg_timestamp(@)]

\* tasks w1 and w2 have each built a row for the same table from the same
\* chain head
SameHead(w1, w2) ==
    /\ w1 # w2
    /\ built[w1].made /\ built[w2].made
    /\ built[w1].table = built[w2].table
    /\ last[w1] = last[w2]

(* C18: two writers that read the same chain head of a table compute the   *)
(* same next id, the successor of that head, and the same predecessor hash; *)
(* once the row of one of them is in the table the insert of the other adds *)
(* nothing, and no table ever holds two rows with the same id.              *)
C18_SameHeadCollides ==
    /\ [](/\ \A table \in TrackedTables : \A r1, r2 \in db[table] :
                RowId(table, r1) = RowId(table, r2) => r1 = r2
          /\ \A w1, w2 \in Tasks :
                SameHead(w1, w2) =>
                    LET table == built[w1].table
                        head == last[w1]
                    IN  /\ RowId(table, built[w1].row) = RowId(table, built[w2].row)
                        /\ RowId(table, built[w1].row) =
                                IF head.prior_id = None THEN 0
                                ELSE head.prior_id[1] + 1
                        /\ built[w1].row.prior_sha256 = built[w2].row.prior_sha256
                        /\ built[w1].row.prior_sha256 = head.prior_sha256)
    /\ [][\A w1, w2 \in Tasks :
            (/\ Acts(w2) /\ SameHead(w1, w2)'
             /\ pc[w2] = "insert" /\ pc'[w2] = "idle"
             /\ built[w1].made /\ StoredRow(w1) \in db[built[w1].table])
                => db' = db
       ]_vars

\* both tasks read the same head; the insert of one succeeded and that of
\* the other was rejected
C18_Witness ==
    \E w1, w2 \in Tasks :
        /\ SameHead(w1, w2)
        /\ ReturnedOk(w1) /\ StoredRow(w1) \in db[built[w1].table]
        /\ Rejected(w2)

\* a table holds two rows with one predecessor hash and different ids
Fork ==
    \E table \in TrackedTables : \E r1, r2 \in db[table] :
        /\ RowId(table, r1) # RowId(table, r2)
        /\ r1.prior_sha256 = r2.prior_sha256

-----------------------------------------------------------------------------
(* Append-only tables *)

\* row r is the link that follows the head of the rows of the table
LinkedToHead(table, rows, r) ==
    IF rows = {}
    THEN /\ RowId(table, r) = 0
         /\ r.prior_id = None
         /\ r.prior_sha256 = Sentinel
    ELSE LET top == CHOOSE x \in rows :
                        \A y \in rows : RowId(table, y) <= RowId(table, x)
         IN  /\ RowId(table, r) = RowId(table, top) + 1
             /\ r.prior_id = Some(RowId(table, top))
             /\ r.prior_sha256 = top.new_sha256

(* C20: tracked tables are append-only.  Whatever operation of Xtchr takes *)
(* a step (the add_* writes, add_image_mutable, the reads), every tracked   *)
(* table either stays as it is or gains exactly one row, linked to the head *)
(* the table had: no row is changed or removed, and a table that holds rows *)
(* never becomes empty.                                                     *)
C20_AppendOnly ==
    [][\A table \in TrackedTables :
        \/ db'[table] = db[table]
        \/ \E r \in db'[table] :
            /\ r \notin db[table]
            /\ db'[table] = db[table] \cup {r}
            /\ LinkedToHead(table, db[table], r)
    ]_vars

\* a table took both transitions: the genesis row, then a row linked to it,
\* written by the two tasks
C20_Witness ==
    \E table \in TrackedTables :
        /\ Cardinality(db[table]) = 2
        /\ \A w \in Tasks :
            built[w].made /\ built[w].table = table /\ StoredRow(w) \in db[table]


-----------------------------------------------------------------------------
(* Termination *)

\* the most database round trips one invocation of a write operation makes:
\* the head read and the insert, add_article's insert into image_files, and
\* add_image_mutable's single insert
MaxRoundTrips(o) ==
    CASE o = "add_article" -> 3
      [] o = "add_image_mutable" -> 1
      [] OTHER -> 2

(* C21: every write operation terminates.  With every round trip returning *)
(* and the task polled again, a write operation that was started reaches   *)
(* its end, and it has then made no more round trips than its code lists:   *)
(* one head read and one insert, one more for add_article's image file.     *)
C21_WritesTerminate ==
    /\ [](\A w \in Tasks :
            op[w] \in WriteOps => Len(stmts[w]) <= MaxRoundTrips(op[w]))
    /\ \A w \in Tasks : (pc[w] # "idle") ~> (pc[w] = "idle")

\* add_article with an image file has ended after its three round trips
C21_Witness ==
    \E w \in Tasks :
        /\ op[w] = "add_article" /\ pc[w] = "idle"
        /\ Len(stmts[w]) = 3


-----------------------------------------------------------------------------
(* The encoding of optional fields *)

\* what an optional field puts after its label: nothing when it is absent,
\* the display form of its value when it is present
ShownInt(opt) == IF opt = None THEN "" ELSE ToString(opt[1])

ShownStr(opt) == IF opt = None THEN "" ELSE opt[1]

\* the state string as labels and values, every optional field as above
LabelsAndValues(c) ==
    CASE c.dtype = "Image" ->
            "img_id=" \o ToString(c.img_id) \o " src_full=" \o c.pair.src_full
                \o " src_thmb=" \o c.pair.src_thmb \o " alt=" \o c.pair.alt
                \o " url=" \o ShownStr(c.pair.url)
                \o " archive=" \o ShownStr(c.pair.archive)
      [] c.dtype = "ArticleRefArticle" ->
            "aref_id=" \o ToString(c.aref_id)
                \o " from_art=" \o ToString(c.rf.art_id)
                \o " from_para=" \o ShownInt(c.rf.apara_id)
                \o " refs_art=" \o ToString(c.refs_art)
                \o " refs_para=" \o ShownInt(c.refs_para)
                \o " comment=" \o c.rf.comment
      [] c.dtype = "ArticleRefVideo" ->
            "vref_id=" \o ToString(c.vref_id)
                \o " art_id=" \o ToString(c.rf.art_id)
                \o " apara_id=" \o ShownInt(c.rf.apara_id)
                \o " vid_pk=" \o c.vid_pk
                \o " sec_req=" \o ShownInt(c.sec_req)
                \o " comment=" \o c.rf.comment
      [] c.dtype = "ArticleRefImage" ->
            "iref_id=" \o ToString(c.iref_id)
                \o " art_id=" \o ToString(c.rf.art_id)
                \o " apara_id=" \o ShownInt(c.rf.apara_id)
                \o " img_id=" \o ToString(c.img_id)
                \o " comment=" \o c.rf.comment
      [] c.dtype = "ArticlePage" ->
            "art_id=" \o ToString(c.art_id) \o " apage_id=" \o ToString(c.apage_id)
                \o " paragraphs=" \o Join(c.paragraphs, " | ")
                \o " img_id="
                \o (IF c.source[1] = "WpTxYt" THEN ToString(c.source[2]) ELSE "")
                \o " image_file="
                \o (IF c.source[1] = "Author" THEN c.source[2] ELSE "")
                \o " refs_art_id="
                \o (IF c.source[1] = "Xtchd" THEN ToString(c.source[2]) ELSE "")

WithOptionalFields ==
    {"Image", "ArticleRefArticle", "ArticleRefVideo", "ArticleRefImage", "ArticlePage"}

(* C22: in the state_string of every content type with an optional field    *)
(* (ArticleRefArticle, ArticleRefVideo, ArticleRefImage, ImmutableImage,     *)
(* ArticlePage) an absent value puts the empty string after its label and a *)
(* present value its display form and nothing else: the string is the       *)
(* labels and values alone, so the encoding brings in no None, Some( or     *)
(* null marker.                                                              *)
C22_OptionalFieldsEncodeEmpty ==
    \A w \in Tasks :
        (/\ op[w] = "state_string"
         /\ args[w].content.dtype \in WithOptionalFields)
            => ret[w] = Returned(Ok([string |-> LabelsAndValues(args[w].content)]))

\* the state string of an ImmutableImage with a url and no archive, and that
\* of an ArticleRefVideo with no paragraph and a start second, were computed
C22_Witness ==
    /\ \E w \in Tasks :
        /\ op[w] = "state_string" /\ ReturnedOk(w)
        /\ args[w].content.dtype = "Image"
        /\ args[w].content.pair.url = Some("http://u")
        /\ args[w].content.pair.archive = None
    /\ \E w \in Tasks :
        /\ op[w] = "state_string" /\ ReturnedOk(w)
        /\ args[w].content.dtype = "ArticleRefVideo"
        /\ args[w].content.rf.apara_id = None
        /\ args[w].content.sec_req = Some(42)


-----------------------------------------------------------------------------
(* Who chooses ids and predecessor hashes *)

(* C23: the id, prior_id and prior_sha256 of the row a write operation      *)
(* sends depend on the chain head it read and on nothing the caller passed: *)
(* prior_id and prior_sha256 are those of the head, and two runs of one     *)
(* operation that read the same head send rows with the same id, prior_id   *)
(* and prior_sha256, whatever content each was called with.                 *)
C23_ChainFactsFromHeadOnly ==
    \A w1, w2 \in Tasks :
        (/\ built[w1].made /\ built[w2].made
         /\ op[w1] = op[w2]
         /\ last[w1] = last[w2])
            => LET table == built[w1].table
                   r1 == built[w1].row
                   r2 == built[w2].row
               IN  /\ RowId(table, r1) = RowId(table, r2)
                   /\ r1.prior_id = r2.prior_id
                   /\ r1.prior_sha256 = r2.prior_sha256
                   /\ r1.prior_id = last[w1].prior_id
                   /\ r1.prior_sha256 = last[w1].prior_sha256

\* two runs of one operation read the same head and were called with
\* different content
C23_Witness ==
    \E w1, w2 \in Tasks :
        /\ w1 # w2
        /\ built[w1].made /\ built[w2].made
        /\ op[w1] = op[w2] /\ last[w1] = last[w2]
        /\ args[w1] # args[w2]
        /\ built[w1].content # built[w2].content


-----------------------------------------------------------------------------
(* Reading back what was appended *)

\* task v appended the row with id k to the table and still holds what it sent
Appended(v, table, k) ==
    /\ built[v].made /\ built[v].table = table
    /\ ReturnedOk(v)
    /\ RowId(table, built[v].row) = k

(* C24: read after write.  author_detail(k), when it returns Ok, hands out  *)
(* the envelope of the authors row with id k: content auth_id = k and the   *)
(* name add_author was called with, and the prior_id, prior_sha256 and      *)
(* new_sha256 the append sent.  article_text(k) hands out the envelope of    *)
(* the article with id k, that of its author, and the envelopes of exactly  *)
(* the paragraphs appended for article k.                                    *)
C24_ReadAfterWrite ==
    [][\A w \in Tasks :
        /\ (author_detail(w) /\ ReturnedOk(w)') =>
                LET k == args'[w].auth_id
                    xc == ret'[w].res.val.author
                IN  /\ \E r \in db["authors"] :
                            /\ r.auth_id = k
                            /\ xc.content = Author(k, r.name)
                            /\ xc.prior_id = r.prior_id
                            /\ xc.prior_sha256 = r.prior_sha256
                            /\ xc.new_sha256 = r.new_sha256
                    /\ \A v \in Tasks :
                            Appended(v, "authors", k) =>
                                /\ xc.content = Author(k, args[v].name)
                                /\ xc.prior_id = built[v].row.prior_id
                                /\ xc.prior_sha256 = built[v].row.prior_sha256
                                /\ xc.new_sha256 = built[v].row.new_sha256
        /\ (article_text(w) /\ ReturnedOk(w)') =>
                LET k == args'[w].art_id
                    val == ret'[w].res.val
                    paras == {q \in db["article_para"] : q.art_id = k}
                IN  /\ \E a \in db["articles"] :
                            /\ a.art_id = k
                            /\ CarriesFacts(val.article, "articles", a)
                            /\ \E u \in db["authors"] :
                                /\ u.auth_id = a.auth_id
                                /\ CarriesFacts(val.author, "authors", u)
                    /\ \A xc \in val.paragraphs :
                            \E q \in paras : CarriesFacts(xc, "article_para", q)
                    /\ \A q \in paras :
                            \E xc \in val.paragraphs : CarriesFacts(xc, "article_para", q)
    ]_vars

\* article_text(0) came back with the article, its author and a paragraph
\* appended for article 0
C24_Witness ==
    \E w \in Tasks :
        /\ op[w] = "article_text" /\ ReturnedOk(w)
        /\ ret[w].res.val.paragraphs # {}
        /\ ret[w].res.val.author.content.name \in AuthorNames

-----------------------------------------------------------------------------
(* Enriched articles without article-level references *)

(* C25: reading an enriched article succeeds for every stored article, also *)
(* for one without article-level references, whose refs column is null: a   *)
(* call of enriched_article whose round trip worked returns a value or the  *)
(* missing-row error and never aborts.                                      *)
C25_NullRefsIsRead ==
    \A w \in Tasks :
        (op[w] = "enriched_article" /\ pc[w] = "idle" /\ ~IoFailed(w))
            => ReturnedOk(w) \/ MissingRow(w)

-----------------------------------------------------------------------------
(* The chain head held by a Writer *)

(* C26: write_row advances the chain head of its Writer: after a successful *)
(* write_row the Writer's prior_id and prior_sha256 are the id and the hash *)
(* of the row just written, so that the next row written through the same   *)
(* Writer is linked to it.                                                  *)
C26_WriterHeadAdvances ==
    \A w \in Tasks :
        (op[w] = "write_row" /\ ReturnedOk(w)) =>
            /\ last[w].prior_id = built[w].row.item_id
            /\ last[w].prior_sha256 = built[w].row.new_sha256

-----------------------------------------------------------------------------
(* Collisions of the encoding *)

(* C27: the encoding is collision-free within a content type.  Two content  *)
(* values of one type that differ in a field that state_string includes     *)
(* never give the same string_to_hash for the same timestamp and the same   *)
(* predecessor hash, also when a text field holds the separator of a later  *)
(* field.                                                                   *)
C27_EncodingIsCollisionFree ==
    \A w1, w2 \in Tasks :
        (/\ op[w1] = "from_timestamp" /\ ReturnedOk(w1)
         /\ op[w2] = "from_timestamp" /\ ReturnedOk(w2)
         /\ args[w1].content.dtype = args[w2].content.dtype
         /\ args[w1].content # args[w2].content)
            => ret[w1].res.val.hclink.string_to_hash
                    # ret[w2].res.val.hclink.string_to_hash

-----------------------------------------------------------------------------
(* The id after the largest id *)

(* C28: LastRow::next_id returns an id strictly greater than the head id it *)
(* was computed from, for every 32-bit signed head id, 2^31 - 1 included;   *)
(* it never wraps to a negative or an already used id.                      *)
C28_NextIdIsGreater ==
    \A w \in Tasks :
        op[w] = "next_id" =>
            /\ ReturnedOk(w)
            /\ args[w].head.prior_id # None
                => ret[w].res.val.id > args[w].head.prior_id[1]

-----------------------------------------------------------------------------
(* The ids handed to the callers *)

\* the id in the content that a successful call of operation o returned
ReturnedId(o, val) == val.content[IdCol(OwnTable(o))]

(* C29: the ids returned by the successful calls of one write operation,    *)
(* issued one at a time, are strictly increasing: a call that returns Ok    *)
(* returns an id greater than the id of every earlier successful call of    *)
(* the same operation; two successful add_youtube_video calls never return  *)
(* the same vid_id, whatever vid_pk they pass.                              *)
C29_ReturnedIdsIncrease ==
    [][\A w, v \in Tasks :
        (/\ pc[w] = "insert" /\ pc'[w] = "idle" /\ ReturnedOk(w)'
         /\ op[w] \in ContentOps
         /\ op[v] = op[w] /\ ReturnedOk(v))
            => ReturnedId(op[w], ret'[w].res.val) > ReturnedId(op[v], ret[v].res.val)
    ]_vars

-----------------------------------------------------------------------------
(* What a failed write operation leaves behind *)

\* no table is changed by the step
TablesUnchanged ==
    /\ db' = db
    /\ image_files' = image_files
    /\ images_mut' = images_mut
    /\ hash_integrity' = hash_integrity

\* C30 as stated, for the first operation run on the empty database: a write
\* operation that did not complete successfully has left every table as it
\* was before the operation started, image_files included
C30_FailedWriteLeavesNothing ==
    \A w \in Tasks :
        (calls = 1 /\ op[w] \in WriteOps /\ pc[w] = "idle" /\ ~ReturnedOk(w))
            => /\ db = [t \in TrackedTables |-> {}]
               /\ image_files = {}
               /\ images_mut = {}
               /\ hash_integrity = {}

(* C30, amended: the step that ends an operation without success changes no *)
(* table, and a step that does not end its operation changes no tracked     *)
(* table, nor images_mut, nor hash_integrity.  What a failed operation can   *)
(* leave behind is the file name that add_article, called with a present    *)
(* image_file, wrote to image_files before its insert into articles.        *)
C30_FailedWriteLeavesOnlyImageFile ==
    [][\A w \in Tasks : Step(w) =>
        /\ (pc'[w] = "idle" /\ ~ReturnedOk(w)') => TablesUnchanged
        /\ pc'[w] # "idle" =>
            /\ db' = db
            /\ images_mut' = images_mut
            /\ hash_integrity' = hash_integrity
            /\ \/ image_files' = image_files
               \/ /\ add_article_image_file(w)
                  /\ image_files' = image_files \cup {args[w].image_file[1]}
    ]_vars

\* add_article with a present image_file has failed at its insert into
\* articles: no article is stored and the file name is in image_files
C30_Witness ==
    \E w \in Tasks :
        /\ op[w] = "add_article" /\ pc[w] = "idle" /\ ret[w].kind = "panic"
        /\ stmts[w] = <<Select("articles"), Insert("image_files"), Insert("articles")>>
        /\ args[w].image_file # None
        /\ args[w].image_file[1] \in image_files
        /\ db["articles"] = {}

=============================================================================
